---- MODULE Spec2Model ----
(***************************************************************************)
(* monoio-tls: the staging buffers (monoio-io-wrapper), the rustls-backed  *)
(* Stream (monoio-rustls) and the native-tls-backed TlsStream              *)
(* (monoio-native-tls), as state machines.                                 *)
(*                                                                         *)
(* Bytes are numbered: the k-th byte the transport produces is the number  *)
(* k, and the k-th record byte the engine emits is the number k, so that   *)
(* order, loss and duplication are visible in the sequences.               *)
(*                                                                         *)
(* The transport (monoio AsyncReadRent / AsyncWriteRent) and the TLS       *)
(* engines (rustls ConnectionCommon, native_tls::TlsStream) are external   *)
(* collaborators: each of their calls is a nondeterministic choice over    *)
(* the outcomes their contract allows.                                     *)
(***************************************************************************)
EXTENDS Integers, Sequences, FiniteSets, TLC

\* ------------------------------------------------------------------ bounds
\* Largest staging-buffer capacity (BUFFER_SIZE / ReadBuffer::new(size), scaled).
MaxCap == 2
\* Bytes the transport produces in one run.
MaxRx == 2
\* Record bytes the engine emits in one run.
MaxTx == 2
\* Bytes the wire records (re-sent bytes included).
MaxWire == 3
\* Longest slice handed to one synchronous read or write.
MaxSlice == 2
\* Most bytes of the peer's flights a handshake needs.
MaxHsNeed == 2
\* Steps of control flow a task may take without calling the engine, a staging
\* buffer or the transport before it counts as spinning.
SettleFuel == 12

\* ------------------------------------------------------------ io::Result
Ok(n) == [tag |-> "Ok", n |-> n, kind |-> "", msg |-> ""]

Err(kind, msg) == [tag |-> "Err", n |-> 0, kind |-> kind, msg |-> msg]

IsOk(r) == r.tag = "Ok"

IsErr(r) == r.tag = "Err"

WouldBlock == Err("WouldBlock", "")

IsWouldBlock(r) == IsErr(r) /\ r.kind = "WouldBlock"

\* e.kind().into(): an error of the same kind without the original payload.
KindOnly(e) == Err(e.kind, "")

\* The errors a transport call can fail with.
TransportErr == Err("ConnectionReset", "transport")

NoResult == [tag |-> "None", n |-> 0, kind |-> "", msg |-> ""]

\* Option::expect on None: the call panics with `msg`
Panicked(msg) == [tag |-> "Panic", n |-> 0, kind |-> "", msg |-> msg]

\* <<a, a+1, ..., b>>
Range(a, b) == [i \in 1..(b - a + 1) |-> a + i - 1]

Min(a, b) == IF a <= b THEN a ELSE b

\* -------------------------------------------------------------- Buffer
\* Buffer { read, write, buf }: cap is buf.len() and data the bytes of buf
\* between the two cursors (no code reads the bytes outside them).
Buffer_new(size) == [read |-> 0, write |-> 0, cap |-> size, data |-> <<>>]

Buffer_cap(b) == b.cap

Buffer_len(b) == b.write - b.read

Buffer_is_empty(b) == Buffer_len(b) = 0

Buffer_available(b) == Buffer_cap(b) - b.write

Buffer_is_full(b) == Buffer_available(b) = 0

\* the bytes between the cursors (IoBuf::read_ptr .. bytes_init)
Buffer_bytes(b) == b.data

\* advance: the assertion failing is a panic, reported by Buffer_advance_ok
Buffer_advance_ok(b, n) == b.read + n <= b.write

\* advance without the reset of the cursors
Buffer_advance_no_reset(b, n) ==
    [b EXCEPT !.read = b.read + n, !.data = SubSeq(b.data, n + 1, Len(b.data))]

Buffer_advance(b, n) ==
    IF b.read + n = b.write
    THEN [b EXCEPT !.read = 0, !.write = 0, !.data = <<>>]
    ELSE [b EXCEPT !.read = b.read + n, !.data = SubSeq(b.data, n + 1, Len(b.data))]

\* copy data at write_ptr and set_init(write + Len(data))
Buffer_put(b, data) ==
    [b EXCEPT !.data = b.data \o data, !.write = b.write + Len(data)]

\* ------------------------------------------------------------ SafeRead
StatusOk == [tag |-> "Ok", kind |-> "", msg |-> ""]

StatusEof == [tag |-> "Eof", kind |-> "", msg |-> ""]

StatusErr(e) == [tag |-> "Err", kind |-> e.kind, msg |-> e.msg]

\* buffer: Option<Buffer> is `some` plus the buffer's fields
SafeRead_new(size) == [some |-> TRUE, b |-> Buffer_new(size), status |-> StatusOk]

\* read that leaves the stored status in place
SafeRead_read_sticky(sr, dstlen) ==
    IF Buffer_is_empty(sr.b)
    THEN [s |-> sr,
          ret |-> CASE sr.status.tag = "Eof" -> Ok(0)
                    [] sr.status.tag = "Err" -> Err(sr.status.kind, sr.status.msg)
                    [] OTHER -> WouldBlock,
          data |-> <<>>]
    ELSE LET to_copy == Min(Buffer_len(sr.b), dstlen)
         IN [s |-> [sr EXCEPT !.b = Buffer_advance(sr.b, to_copy)],
             ret |-> Ok(to_copy),
             data |-> SubSeq(Buffer_bytes(sr.b), 1, to_copy)]

\* io::Read for SafeRead: the state after, the result and the bytes copied out
SafeRead_read(sr, dstlen) ==
    IF Buffer_is_empty(sr.b)
    THEN [s |-> [sr EXCEPT !.status = StatusOk],
          ret |-> CASE sr.status.tag = "Eof" -> Ok(0)
                    [] sr.status.tag = "Err" -> Err(sr.status.kind, sr.status.msg)
                    [] OTHER -> WouldBlock,
          data |-> <<>>]
    ELSE LET to_copy == Min(Buffer_len(sr.b), dstlen)
         IN [s |-> [sr EXCEPT !.b = Buffer_advance(sr.b, to_copy)],
             ret |-> Ok(to_copy),
             data |-> SubSeq(Buffer_bytes(sr.b), 1, to_copy)]

\* SafeRead::do_io up to the await: TRUE when it returns Ok(len) without I/O
SafeRead_do_io_buffered(sr) == ~Buffer_is_empty(sr.b)

\* self.buffer.take(): the buffer is lent to io.read
SafeRead_do_io_take(sr) == [sr EXCEPT !.some = FALSE]

\* do_io that returns the transport's error itself and stores only its kind
SafeRead_do_io_done_moves_error(sr, res, data) ==
    LET back == [sr EXCEPT !.some = TRUE, !.b = Buffer_put(sr.b, data)]
    IN CASE IsOk(res) /\ res.n = 0 ->
                [s |-> [back EXCEPT !.status = StatusEof], ret |-> res]
         [] IsOk(res) ->
                [s |-> [back EXCEPT !.status = StatusOk], ret |-> res]
         [] OTHER ->
                [s |-> [back EXCEPT !.status = StatusErr(KindOnly(res))], ret |-> res]

\* SafeRead::do_io after the await: the transport's result is `res`, and the
\* transport has put `data` at the write cursor (Len(data) = res.n on Ok)
SafeRead_do_io_done(sr, res, data) ==
    LET back == [sr EXCEPT !.some = TRUE, !.b = Buffer_put(sr.b, data)]
    IN CASE IsOk(res) /\ res.n = 0 ->
                [s |-> [back EXCEPT !.status = StatusEof], ret |-> res]
         [] IsOk(res) ->
                [s |-> [back EXCEPT !.status = StatusOk], ret |-> res]
         [] OTHER ->
                [s |-> [back EXCEPT !.status = StatusErr(res)], ret |-> KindOnly(res)]

\* ----------------------------------------------------------- SafeWrite
SafeWrite_new(size) == [some |-> TRUE, b |-> Buffer_new(size), status |-> StatusOk]

\* write without the is_full test: a full buffer accepts zero bytes
SafeWrite_write_no_full_check(sw, src) ==
    CASE sw.status.tag = "Err" ->
            [s |-> [sw EXCEPT !.status = StatusOk],
             ret |-> Err(sw.status.kind, sw.status.msg)]
      [] OTHER ->
            LET to_copy == Min(Len(src), Buffer_available(sw.b))
            IN [s |-> [sw EXCEPT !.status = StatusOk,
                                 !.b = Buffer_put(sw.b, SubSeq(src, 1, to_copy))],
                ret |-> Ok(to_copy)]

\* io::Write::write for SafeWrite: the state after and the result
SafeWrite_write(sw, src) ==
    CASE sw.status.tag = "Err" ->
            [s |-> [sw EXCEPT !.status = StatusOk],
             ret |-> Err(sw.status.kind, sw.status.msg)]
      [] Buffer_is_full(sw.b) ->
            [s |-> [sw EXCEPT !.status = StatusOk], ret |-> WouldBlock]
      [] OTHER ->
            LET to_copy == Min(Len(src), Buffer_available(sw.b))
            IN [s |-> [sw EXCEPT !.status = StatusOk,
                                 !.b = Buffer_put(sw.b, SubSeq(src, 1, to_copy))],
                ret |-> Ok(to_copy)]

\* io::Write::flush for SafeWrite
SafeWrite_flush(sw) ==
    CASE sw.status.tag = "Err" ->
            [s |-> [sw EXCEPT !.status = StatusOk],
             ret |-> Err(sw.status.kind, sw.status.msg)]
      [] ~Buffer_is_empty(sw.b) ->
            [s |-> [sw EXCEPT !.status = StatusOk], ret |-> WouldBlock]
      [] OTHER ->
            [s |-> [sw EXCEPT !.status = StatusOk], ret |-> Ok(0)]

\* SafeWrite::do_io up to the await: TRUE when it returns Ok(0) without I/O
SafeWrite_do_io_empty(sw) == Buffer_is_empty(sw.b)

\* self.buffer.take(): the buffer is lent to io.write_all
SafeWrite_do_io_take(sw) == [sw EXCEPT !.some = FALSE]

\* do_io that advances the read cursor by the bytes sent when write_all fails
SafeWrite_do_io_done_advancing(sw, res) ==
    LET back == [sw EXCEPT !.some = TRUE]
    IN IF IsOk(res)
       THEN [s |-> [back EXCEPT !.b = Buffer_advance(sw.b, res.n)], ret |-> res]
       ELSE [s |-> [back EXCEPT !.status = StatusErr(res),
                                !.b = Buffer_advance(sw.b, Buffer_len(sw.b) - 1)],
             ret |-> KindOnly(res)]

\* SafeWrite::do_io after the await, `res` being write_all's result
SafeWrite_do_io_done(sw, res) ==
    LET back == [sw EXCEPT !.some = TRUE]
    IN IF IsOk(res)
       THEN [s |-> [back EXCEPT !.b = Buffer_advance(sw.b, res.n)], ret |-> res]
       ELSE [s |-> [back EXCEPT !.status = StatusErr(res)], ret |-> KindOnly(res)]

\* ------------------------------------------------------------ transport
\* io.write_all(buffer): every byte between the cursors reaches the wire and the
\* result is Ok(len), or the first `sent` (< len) bytes do and the call fails.
WriteAllOutcomes(b) ==
    {[res |-> Ok(Buffer_len(b)), sent |-> Buffer_len(b)]}
        \cup {[res |-> TransportErr, sent |-> k] : k \in 0..(Buffer_len(b) - 1)}

\* io.read(buffer): n bytes (0 is end of stream) into the free region, or a failure.
ReadOutcomes(b, produced) ==
    {Ok(n) : n \in 0..Min(Buffer_available(b), MaxRx - produced)} \cup {TransportErr}

\* ---------------------------------------------------------------- state
VARIABLES
    r_buffer,   \* the read staging buffer (SafeRead)
    w_buffer,   \* the write staging buffer (SafeWrite)
    rx_total,   \* bytes the transport has produced so far
    tx_total,   \* record bytes the synchronous write has accepted so far
    wire,       \* the bytes handed to the transport, in order
    engine_in,  \* the bytes the synchronous read has returned, in order
    pend,       \* pend.r / pend.w: a do_io future is suspended at its await
    last,       \* the staging-buffer call that returned last, or what connect
                \* returned and what its error was converted to: [op, ret]
    session,    \* the rustls connection of the Stream
    task,       \* the operation in flight on the read side ("R") and on the
                \* write side ("W") of the Stream: its position and locals
    phase,      \* "new", "handshaking", "ready" (connect returned the stream)
                \* or "dead" (connect returned the error and dropped the stream)
    splitted,   \* the stream is held as a ReadHalf and a WriteHalf
    peer,       \* "any", or "responsive": a peer that answers and never fails
    halves,     \* the streams an application holds whole or as a ReadHalf and a
                \* WriteHalf over one Rc, and what reunite returned last
    once        \* the process-wide engine initializer: INIT_ONCE, the threads
                \* inside init() and the runs of init_openssl_engine

bufvars == <<r_buffer, w_buffer, rx_total, tx_total, wire, engine_in, pend>>

streamvars == <<session, task, phase, splitted, peer, halves, once>>

vars == <<r_buffer, w_buffer, rx_total, tx_total, wire, engine_in, pend, last,
          session, task, phase, splitted, peer, halves, once>>

NoCall == [op |-> "none", ret |-> NoResult]

\* reunite has not been called
NoReunite == [kind |-> "none", read |-> 0, write |-> 0, after_err |-> FALSE]

\* no stream is held as halves
NoHalves == [streams |-> <<>>, res |-> NoReunite]

\* init() has not been called
NoOnce == [crate |-> "none", qat |-> FALSE, state |-> "incomplete", runs |-> 0,
           caller |-> <<>>]

\* ReadBuffer::new(size) / WriteBuffer::new(size) (Default: BUFFER_SIZE), nothing
\* read or written yet
BufInit(rc, wc) ==
    /\ r_buffer = SafeRead_new(rc)
    /\ w_buffer = SafeWrite_new(wc)
    /\ rx_total = 0
    /\ tx_total = 0
    /\ wire = <<>>
    /\ engine_in = <<>>
    /\ pend = [r |-> FALSE, w |-> FALSE]

\* ------------------------------------------- the staging buffers' callers
\* io::Read::read(dst) on the read staging buffer, as the engine calls it
BufRead(dstlen) ==
    /\ ~pend.r
    /\ IF r_buffer.some
       THEN LET c == SafeRead_read(r_buffer, dstlen)
            IN /\ r_buffer' = c.s
               /\ engine_in' = engine_in \o c.data
               /\ last' = [op |-> "read", ret |-> c.ret]
       ELSE /\ last' = [op |-> "read", ret |-> Panicked("buffer mut expected")]
            /\ UNCHANGED <<r_buffer, engine_in>>
    /\ UNCHANGED <<w_buffer, rx_total, tx_total, wire, pend, streamvars>>

\* io::Write::write(src) on the write staging buffer; src is the next bytes
\* the engine has to send
BufWrite(srclen) ==
    /\ ~pend.w
    /\ tx_total + srclen <= MaxTx
    /\ IF w_buffer.some
       THEN LET c == SafeWrite_write(w_buffer, Range(tx_total + 1, tx_total + srclen))
            IN /\ w_buffer' = c.s
               /\ tx_total' = tx_total + c.ret.n
               /\ last' = [op |-> "write", ret |-> c.ret]
       ELSE /\ last' = [op |-> "write", ret |-> Panicked("buffer mut expected")]
            /\ UNCHANGED <<w_buffer, tx_total>>
    /\ UNCHANGED <<r_buffer, rx_total, wire, engine_in, pend, streamvars>>

\* io::Write::flush on the write staging buffer
BufFlush ==
    /\ ~pend.w
    /\ IF w_buffer.some
       THEN LET c == SafeWrite_flush(w_buffer)
            IN /\ w_buffer' = c.s
               /\ last' = [op |-> "flush", ret |-> c.ret]
       ELSE /\ last' = [op |-> "flush", ret |-> Panicked("buffer ref expected")]
            /\ UNCHANGED w_buffer
    /\ UNCHANGED <<r_buffer, rx_total, tx_total, wire, engine_in, pend, streamvars>>

\* SafeRead::do_io to its first suspension (or its early return)
BufPumpRead ==
    /\ ~pend.r
    /\ CASE ~r_buffer.some ->
              /\ last' = [op |-> "pump_read", ret |-> Panicked("buffer ref expected")]
              /\ UNCHANGED <<r_buffer, pend>>
         [] r_buffer.some /\ SafeRead_do_io_buffered(r_buffer) ->
              /\ last' = [op |-> "pump_read", ret |-> Ok(Buffer_len(r_buffer.b))]
              /\ UNCHANGED <<r_buffer, pend>>
         [] OTHER ->
              /\ r_buffer' = SafeRead_do_io_take(r_buffer)
              /\ pend' = [pend EXCEPT !.r = TRUE]
              /\ UNCHANGED last
    /\ UNCHANGED <<w_buffer, rx_total, tx_total, wire, engine_in, streamvars>>

\* io.read completes and SafeRead::do_io returns
BufPumpReadDone ==
    /\ pend.r
    /\ \E res \in ReadOutcomes(r_buffer.b, rx_total) :
          LET c == SafeRead_do_io_done(r_buffer, res,
                                       Range(rx_total + 1, rx_total + res.n))
          IN /\ r_buffer' = c.s
             /\ rx_total' = rx_total + res.n
             /\ last' = [op |-> "pump_read", ret |-> c.ret]
    /\ pend' = [pend EXCEPT !.r = FALSE]
    /\ UNCHANGED <<w_buffer, tx_total, wire, engine_in, streamvars>>

\* SafeWrite::do_io to its first suspension (or its early return)
BufPumpWrite ==
    /\ ~pend.w
    /\ CASE ~w_buffer.some ->
              /\ last' = [op |-> "pump_write", ret |-> Panicked("buffer ref expected")]
              /\ UNCHANGED <<w_buffer, pend>>
         [] w_buffer.some /\ SafeWrite_do_io_empty(w_buffer) ->
              /\ last' = [op |-> "pump_write", ret |-> Ok(0)]
              /\ UNCHANGED <<w_buffer, pend>>
         [] OTHER ->
              /\ w_buffer' = SafeWrite_do_io_take(w_buffer)
              /\ pend' = [pend EXCEPT !.w = TRUE]
              /\ UNCHANGED last
    /\ UNCHANGED <<r_buffer, rx_total, tx_total, wire, engine_in, streamvars>>

\* io.write_all completes and SafeWrite::do_io returns
BufPumpWriteDone ==
    /\ pend.w
    /\ \E out \in WriteAllOutcomes(w_buffer.b) :
          /\ Len(wire) + out.sent <= MaxWire
          /\ LET c == SafeWrite_do_io_done(w_buffer, out.res)
             IN /\ w_buffer' = c.s
                /\ wire' = wire \o SubSeq(Buffer_bytes(w_buffer.b), 1, out.sent)
                /\ last' = [op |-> "pump_write", ret |-> c.ret]
    /\ pend' = [pend EXCEPT !.w = FALSE]
    /\ UNCHANGED <<r_buffer, rx_total, tx_total, engine_in, streamvars>>

\* the future of SafeRead::do_io is dropped at its await: io.read's future is
\* dropped with it, and with that the Buffer it was given
BufDropRead ==
    /\ pend.r
    /\ pend' = [pend EXCEPT !.r = FALSE]
    /\ last' = [op |-> "drop_read", ret |-> NoResult]
    /\ UNCHANGED <<r_buffer, w_buffer, rx_total, tx_total, wire, engine_in, streamvars>>

\* the future of SafeWrite::do_io is dropped at its await: the transport may
\* have taken the first `sent` bytes of the Buffer, which is dropped
BufDropWrite ==
    /\ pend.w
    /\ \E sent \in 0..Buffer_len(w_buffer.b) :
          /\ Len(wire) + sent <= MaxWire
          /\ wire' = wire \o SubSeq(Buffer_bytes(w_buffer.b), 1, sent)
    /\ pend' = [pend EXCEPT !.w = FALSE]
    /\ last' = [op |-> "drop_write", ret |-> NoResult]
    /\ UNCHANGED <<r_buffer, w_buffer, rx_total, tx_total, engine_in, streamvars>>

\* ------------------------------------------------- the peer's behaviour
\* What io.read can return to this peer model.
PeerReadOutcomes(b, produced, pr) ==
    IF pr = "responsive"
    THEN {Ok(n) : n \in 1..Min(Buffer_available(b), MaxRx - produced)}
    ELSE ReadOutcomes(b, produced)

\* What io.write_all can return to this peer model.
PeerWriteAllOutcomes(b, pr) ==
    IF pr = "responsive"
    THEN {[res |-> Ok(Buffer_len(b)), sent |-> Buffer_len(b)]}
    ELSE WriteAllOutcomes(b)

\* What io.flush and io.shutdown can return.
PeerUnitOutcomes(pr) == IF pr = "responsive" THEN {Ok(0)} ELSE {Ok(0), TransportErr}

\* ------------------------------------------ the rustls session (engine)
\* hs_need: bytes of the peer's flights the handshake still needs;
\* emitted: record bytes produced so far (those after tx_total are pending);
\* fresh: bytes read_tls took that process_new_packets has not seen yet;
\* plaintext: received plaintext bytes; close_notify: the peer's close_notify
\* was received; seen_eof: read_tls read 0 bytes; error: process_new_packets
\* failed (it then fails again on every later call).
Session_new(need, hello) ==
    [hs_need |-> need, emitted |-> hello, fresh |-> 0, plaintext |-> 0,
     close_notify |-> FALSE, seen_eof |-> FALSE, error |-> FALSE]

is_handshaking(s) == s.hs_need > 0

\* record bytes the session holds for write_tls, tx of them taken so far
Sendable(s, tx) == s.emitted - tx

wants_write(s, tx) == Sendable(s, tx) > 0

wants_read(s, tx) ==
    /\ s.plaintext = 0
    /\ ~s.close_notify
    /\ (~is_handshaking(s) \/ Sendable(s, tx) = 0)

\* the record bytes process_new_packets may queue (a flight, an alert, a
\* key update)
Emits(s) == 0..(MaxTx - s.emitted)

\* session.process_new_packets(): [ok, s]
PnpOutcomes(s, pr) ==
    IF s.error THEN {[ok |-> FALSE, s |-> s]}
    ELSE IF s.fresh = 0 THEN {[ok |-> TRUE, s |-> s]}
    ELSE LET closes == IF pr = "responsive" THEN {FALSE} ELSE BOOLEAN
             good ==
                IF is_handshaking(s)
                THEN {[ok |-> TRUE,
                       s |-> [s EXCEPT !.fresh = 0,
                                       !.hs_need = IF @ > s.fresh THEN @ - s.fresh ELSE 0,
                                       !.emitted = @ + e,
                                       !.close_notify = cn]] :
                        e \in Emits(s), cn \in closes}
                ELSE {[ok |-> TRUE,
                       s |-> [s EXCEPT !.fresh = 0,
                                       !.plaintext = @ + p,
                                       !.emitted = @ + e,
                                       !.close_notify = @ \/ cn]] :
                        e \in Emits(s), cn \in closes, p \in 0..s.fresh}
             bad == IF pr = "responsive" THEN {}
                    ELSE {[ok |-> FALSE,
                           s |-> [s EXCEPT !.fresh = 0, !.error = TRUE,
                                           !.emitted = @ + e]] : e \in Emits(s)}
         IN good \cup bad

\* session.reader().read(slice)
Reader_read(s, len) ==
    CASE len = 0 -> Ok(0)
      [] s.plaintext > 0 -> Ok(Min(s.plaintext, len))
      [] s.close_notify -> Ok(0)
      [] s.seen_eof -> Err("UnexpectedEof", "no close_notify")
      [] OTHER -> WouldBlock

\* session.send_close_notify(): one alert record is queued
send_close_notify(s) == [s EXCEPT !.emitted = @ + 1]

\* --------------------------------------------------------------- tasks
Tasks == {"R", "W"}

Other(t) == IF t = "R" THEN "W" ELSE "R"

\* op: the public operation; pc: its position; stack: the return positions of
\* the calls in progress; rv: the value the last call returned (at "ret": the
\* operation's result); n: read_io's / write_io's n; acc: write's n; len: the
\* caller's buffer length; sp: read_inner's `splitted`; eof, rdlen, wrlen:
\* handshake's locals; pf: process_new_packets failed in this read_io; tries:
\* write_io calls made by this read_io; mark, tx0: the record bytes emitted and
\* taken when write started; z: the transport returned 0 bytes to a read of this
\* operation; after_z: transport reads this operation issued after that;
\* via: the return statement that produced the result of read; again: this
\* shutdown was called right after a shutdown that returned Ok; prev_err: this
\* flush was called right after a write, flush or shutdown that returned an error.
IdleTask ==
    [op |-> "none", pc |-> "idle", stack |-> <<>>, rv |-> NoResult, n |-> 0,
     acc |-> 0, len |-> 0, sp |-> FALSE, eof |-> FALSE, rdlen |-> 0, wrlen |-> 0,
     pf |-> FALSE, tries |-> 0, mark |-> 0, tx0 |-> 0, z |-> FALSE, after_z |-> 0,
     via |-> "", again |-> FALSE, prev_err |-> FALSE]

\* the positions at which a future is suspended on the transport
AwaitPcs == {"rio_await", "wio_await_ok", "wio_await_wb", "f_await", "s_await"}

\* the positions at which no synchronous code of the task is running
Parked == {"idle", "ret"} \cup AwaitPcs

\* the positions of the control flow between two calls of the engine, of a
\* staging buffer or of the transport: the task passes them within the step
\* that reaches them
ControlPcs ==
    {"hs_write_loop", "hs_write_ret", "hs_read_loop", "hs_read_ret", "hs_match",
     "hs_flush", "hs_flush_ret", "rio_alert_ret", "ri_ret", "w_pre", "w_pre_ret",
     "w_drain", "w_drain_ret", "f_drain", "f_drain_ret", "s_drain", "s_drain_ret"}

Finished(t) == task[t].pc \in {"idle", "ret"}

\* Single-threaded cooperative scheduling: a task runs from one await to the next
\* without the other task running in between.
CanRun(t) == task[Other(t)].pc \in Parked

\* the operation that returned last on side t returned an error
ReturnedErr(t) == task[t].pc = "ret" /\ IsErr(task[t].rv)

Call(tk, entry, back) == [tk EXCEPT !.pc = entry, !.stack = <<back>> \o tk.stack]

\* return `val` to the caller, or as the operation's result: only the result
\* and what describes it (op, acc, sp, pf, tries, z, after_z, via, handshake's
\* two counts) is kept
Return(tk, val) ==
    IF tk.stack = <<>>
    THEN [IdleTask EXCEPT !.op = tk.op, !.pc = "ret", !.rv = val,
                          !.acc = IF IsOk(val) THEN tk.acc ELSE 0,
                          !.sp = tk.sp, !.pf = tk.pf, !.tries = tk.tries,
                          !.z = tk.z, !.after_z = tk.after_z, !.via = tk.via,
                          !.rdlen = IF IsOk(val) THEN tk.rdlen ELSE 0,
                          !.wrlen = IF IsOk(val) THEN tk.wrlen ELSE 0]
    ELSE [tk EXCEPT !.pc = Head(tk.stack), !.stack = Tail(tk.stack), !.rv = val,
                    !.n = 0]

StreamInit ==
    /\ \E need \in 1..MaxHsNeed, hello \in 0..1 : session = Session_new(need, hello)
    /\ task = [t \in Tasks |-> IdleTask]
    /\ phase = "new"
    /\ splitted = FALSE

\* no stream is built over the buffers
NoStream ==
    /\ session = Session_new(1, 0)
    /\ task = [t \in Tasks |-> IdleTask]
    /\ phase = "none"
    /\ splitted = FALSE
    /\ peer = "any"

\* ReadBuffer::new(size) and WriteBuffer::new(size) take any two sizes
InitBuf ==
    /\ \E rc \in 1..MaxCap, wc \in 1..MaxCap : BufInit(rc, wc)
    /\ last = NoCall
    /\ NoStream
    /\ halves = NoHalves
    /\ once = NoOnce

NextBuf ==
    \/ \E n \in 0..MaxSlice : BufRead(n)
    \/ \E n \in 0..MaxSlice : BufWrite(n)
    \/ BufFlush
    \/ BufPumpRead
    \/ BufPumpReadDone
    \/ BufPumpWrite
    \/ BufPumpWriteDone
    \/ BufDropRead
    \/ BufDropWrite

\* The staging buffers under any sequence of synchronous calls and pumps.
SpecBuf == InitBuf /\ [][NextBuf]_vars

\* ------------------------------------------------------ Stream::read_io
CallReadIo(tk, back, sp) ==
    Call([tk EXCEPT !.n = 0, !.pf = FALSE, !.tries = 0, !.sp = sp], "rio_read_tls", back)

CallWriteIo(tk, back) == Call([tk EXCEPT !.n = 0], "wio_write_tls", back)

\* what read_io does once session.process_new_packets() has returned `o`
\* read_io that attempts the alert write whatever `splitted` is
ReadIo_after_process_always_writes(tk, o) ==
    CASE ~o.ok ->
            CallWriteIo([tk EXCEPT !.pf = TRUE, !.tries = @ + 1], "rio_alert_ret")
      [] o.s.close_notify /\ is_handshaking(o.s) ->
            Return(tk, Err("UnexpectedEof", "tls handshake alert"))
      [] OTHER ->
            Return(tk, Ok(tk.n))

\* read_io without the check of lines 105-110
ReadIo_after_process_no_alert(tk, o) ==
    CASE ~o.ok /\ ~tk.sp ->
            CallWriteIo([tk EXCEPT !.pf = TRUE, !.tries = @ + 1], "rio_alert_ret")
      [] ~o.ok ->
            Return([tk EXCEPT !.pf = TRUE], Err("InvalidData", "tls"))
      [] OTHER ->
            Return(tk, Ok(tk.n))

ReadIo_after_process(tk, o) ==
    CASE ~o.ok /\ ~tk.sp ->
            CallWriteIo([tk EXCEPT !.pf = TRUE, !.tries = @ + 1], "rio_alert_ret")
      [] ~o.ok ->
            Return([tk EXCEPT !.pf = TRUE], Err("InvalidData", "tls"))
      [] o.s.close_notify /\ is_handshaking(o.s) ->
            Return(tk, Err("UnexpectedEof", "tls handshake alert"))
      [] OTHER ->
            Return(tk, Ok(tk.n))

\* `let _ = self.write_io().await;` has returned: the error is InvalidData
\* read_io that propagates the failure of the alert write
ReadIo_alert_ret_propagating(tk) ==
    Return(tk, IF IsErr(tk.rv) THEN tk.rv ELSE Err("InvalidData", "tls"))

ReadIo_alert_ret(tk) == Return(tk, Err("InvalidData", "tls"))

\* ---------------------------------------------------- Stream::handshake
\* while self.session.wants_write() && self.session.is_handshaking()
Handshake_write_loop(tk, s, tx) ==
    IF wants_write(s, tx) /\ is_handshaking(s)
    THEN CallWriteIo(tk, "hs_write_ret")
    ELSE [tk EXCEPT !.pc = "hs_read_loop"]

\* wrlen += self.write_io().await?
Handshake_write_ret(tk) ==
    IF IsErr(tk.rv)
    THEN Return(tk, tk.rv)
    ELSE [tk EXCEPT !.wrlen = @ + tk.rv.n, !.pc = "hs_write_loop"]

\* handshake whose read loop does not ask wants_read()
Handshake_read_loop_no_wants_read(tk, s, tx) ==
    IF ~tk.eof /\ is_handshaking(s)
    THEN CallReadIo(tk, "hs_read_ret", FALSE)
    ELSE [tk EXCEPT !.pc = "hs_match"]

\* while !eof && self.session.wants_read() && self.session.is_handshaking()
Handshake_read_loop(tk, s, tx) ==
    IF ~tk.eof /\ wants_read(s, tx) /\ is_handshaking(s)
    THEN CallReadIo(tk, "hs_read_ret", FALSE)
    ELSE [tk EXCEPT !.pc = "hs_match"]

\* let n = self.read_io(false).await?; rdlen += n; if n == 0 { eof = true }
\* handshake that does not note the end of the stream
Handshake_read_ret_no_eof(tk) ==
    IF IsErr(tk.rv)
    THEN Return(tk, tk.rv)
    ELSE [tk EXCEPT !.rdlen = @ + tk.rv.n, !.pc = "hs_read_loop"]

Handshake_read_ret(tk) ==
    IF IsErr(tk.rv)
    THEN Return(tk, tk.rv)
    ELSE [tk EXCEPT !.rdlen = @ + tk.rv.n, !.eof = @ \/ tk.rv.n = 0,
                    !.pc = "hs_read_loop"]

\* match (eof, self.session.is_handshaking())
Handshake_match(tk, s) ==
    CASE tk.eof /\ is_handshaking(s) ->
            Return(tk, Err("UnexpectedEof", "tls handshake eof"))
      [] is_handshaking(s) -> [tk EXCEPT !.pc = "hs_write_loop"]
      [] OTHER -> [tk EXCEPT !.pc = "hs_flush"]

\* while self.session.wants_write() { wrlen += self.write_io().await?; }
\* Ok((rdlen, wrlen))
\* handshake without its final loop
Handshake_flush_skipped(tk, s, tx) == Return(tk, Ok(0))

Handshake_flush(tk, s, tx) ==
    IF wants_write(s, tx)
    THEN CallWriteIo(tk, "hs_flush_ret")
    ELSE Return(tk, Ok(0))

Handshake_flush_ret(tk) ==
    IF IsErr(tk.rv)
    THEN Return(tk, tk.rv)
    ELSE [tk EXCEPT !.wrlen = @ + tk.rv.n, !.pc = "hs_flush"]

\* --------------------------------------------------- Stream::read_inner
\* match self.read_io(splitted).await
\* read_inner that reads on after read_io returned Ok(0)
ReadInner_ret_no_eof(tk) ==
    IF IsErr(tk.rv)
    THEN Return([tk EXCEPT !.via = "read_io"], tk.rv)
    ELSE [tk EXCEPT !.pc = "ri_loop"]

ReadInner_ret(tk) ==
    CASE IsErr(tk.rv) -> Return([tk EXCEPT !.via = "read_io"], tk.rv)
      [] tk.rv.n = 0 ->
            Return([tk EXCEPT !.via = "eof"], Err("UnexpectedEof", "tls raw stream eof"))
      [] OTHER -> [tk EXCEPT !.pc = "ri_loop"]

\* -------------------------------------------------------- Stream::write
\* if self.session.wants_write() { if let Err(e) = self.write_io().await ... }
\* write without the write_io before the engine is fed
Write_pre_skipped(tk, s, tx) == [tk EXCEPT !.pc = "w_feed"]

Write_pre(tk, s, tx) ==
    IF wants_write(s, tx)
    THEN CallWriteIo(tk, "w_pre_ret")
    ELSE [tk EXCEPT !.pc = "w_feed"]

Write_pre_ret(tk) ==
    IF IsErr(tk.rv) THEN Return(tk, tk.rv) ELSE [tk EXCEPT !.pc = "w_feed"]

\* while self.session.wants_write() { match self.write_io().await ... }
\* (Ok(n), buf)
Write_drain(tk, s, tx) ==
    IF wants_write(s, tx)
    THEN CallWriteIo(tk, "w_drain_ret")
    ELSE Return(tk, Ok(tk.acc))

\* write that stops draining after the first write_io
Write_drain_ret_once(tk) ==
    IF IsErr(tk.rv) THEN Return(tk, tk.rv) ELSE Return(tk, Ok(tk.acc))

Write_drain_ret(tk) ==
    CASE IsErr(tk.rv) -> Return(tk, tk.rv)
      [] tk.rv.n = 0 -> Return(tk, Ok(tk.acc))
      [] OTHER -> [tk EXCEPT !.pc = "w_drain"]

\* -------------------------------------------- Stream::flush and shutdown
\* while self.session.wants_write() { self.write_io().await?; }
\* self.io.flush().await
Flush_drain(tk, s, tx) ==
    IF wants_write(s, tx)
    THEN CallWriteIo(tk, "f_drain_ret")
    ELSE [tk EXCEPT !.pc = "f_await"]

Flush_drain_ret(tk) ==
    IF IsErr(tk.rv) THEN Return(tk, tk.rv) ELSE [tk EXCEPT !.pc = "f_drain"]

\* while self.session.wants_write() { self.write_io().await?; }
\* self.io.shutdown().await
\* shutdown that closes the transport without draining the records
Shutdown_drain_skipped(tk, s, tx) == [tk EXCEPT !.pc = "s_await"]

Shutdown_drain(tk, s, tx) ==
    IF wants_write(s, tx)
    THEN CallWriteIo(tk, "s_drain_ret")
    ELSE [tk EXCEPT !.pc = "s_await"]

Shutdown_drain_ret(tk) ==
    IF IsErr(tk.rv) THEN Return(tk, tk.rv) ELSE [tk EXCEPT !.pc = "s_drain"]

\* ------------------------------------------------------- control flow
\* one step of control flow at a position of ControlPcs
Control(tk, s, tx) ==
    CASE tk.pc = "hs_write_loop" -> Handshake_write_loop(tk, s, tx)
      [] tk.pc = "hs_write_ret" -> Handshake_write_ret(tk)
      [] tk.pc = "hs_read_loop" -> Handshake_read_loop(tk, s, tx)
      [] tk.pc = "hs_read_ret" -> Handshake_read_ret(tk)
      [] tk.pc = "hs_match" -> Handshake_match(tk, s)
      [] tk.pc = "hs_flush" -> Handshake_flush(tk, s, tx)
      [] tk.pc = "hs_flush_ret" -> Handshake_flush_ret(tk)
      [] tk.pc = "rio_alert_ret" -> ReadIo_alert_ret(tk)
      [] tk.pc = "ri_ret" -> ReadInner_ret(tk)
      [] tk.pc = "w_pre" -> Write_pre(tk, s, tx)
      [] tk.pc = "w_pre_ret" -> Write_pre_ret(tk)
      [] tk.pc = "w_drain" -> Write_drain(tk, s, tx)
      [] tk.pc = "w_drain_ret" -> Write_drain_ret(tk)
      [] tk.pc = "f_drain" -> Flush_drain(tk, s, tx)
      [] tk.pc = "f_drain_ret" -> Flush_drain_ret(tk)
      [] tk.pc = "s_drain" -> Shutdown_drain(tk, s, tx)
      [] tk.pc = "s_drain_ret" -> Shutdown_drain_ret(tk)

\* Control flow runs on to the next call of the engine, of a staging buffer or of
\* the transport. A loop that makes no such call never yields: "spin".
RECURSIVE Settle(_, _, _, _)
Settle(tk, s, tx, fuel) ==
    IF tk.pc \notin ControlPcs THEN tk
    ELSE IF fuel = 0 THEN [tk EXCEPT !.pc = "spin"]
    ELSE Settle(Control(tk, s, tx), s, tx, fuel - 1)

Run(tk, s, tx) == Settle(tk, s, tx, SettleFuel)

\* --------------------------------------------- the steps of read_io
\* session.read_tls(&mut self.r_buffer): one synchronous read of the staging
\* buffer; Ok(n) breaks the loop, WouldBlock leads to do_io, an error returns
ReadIo_read_tls(t) ==
    /\ task[t].pc = "rio_read_tls" /\ CanRun(t)
    /\ \E dstlen \in 1..MaxSlice :
          LET c == SafeRead_read(r_buffer, dstlen)
          IN /\ r_buffer' = c.s
             /\ engine_in' = engine_in \o c.data
             /\ session' = IF IsOk(c.ret)
                           THEN [session EXCEPT !.fresh = @ + c.ret.n,
                                                !.seen_eof = @ \/ c.ret.n = 0]
                           ELSE session
             /\ task' = [task EXCEPT ![t] =
                            CASE IsOk(c.ret) ->
                                    [task[t] EXCEPT !.n = c.ret.n, !.pc = "rio_process"]
                              [] IsWouldBlock(c.ret) ->
                                    [task[t] EXCEPT !.pc = "rio_do_io"]
                              [] OTHER ->
                                    Run(Return(task[t], c.ret), session, tx_total)]
    /\ UNCHANGED <<w_buffer, rx_total, tx_total, wire, pend, last, phase, splitted, peer, halves, once>>

\* self.r_buffer.do_io(&mut self.io) up to its await
ReadIo_do_io(t) ==
    /\ task[t].pc = "rio_do_io" /\ CanRun(t)
    /\ IF SafeRead_do_io_buffered(r_buffer)
       THEN /\ task' = [task EXCEPT ![t].pc = "rio_read_tls"]
            /\ UNCHANGED <<r_buffer, pend>>
       ELSE /\ r_buffer' = SafeRead_do_io_take(r_buffer)
            /\ pend' = [pend EXCEPT !.r = TRUE]
            /\ task' = [task EXCEPT ![t].pc = "rio_await",
                                    ![t].after_z = IF task[t].z THEN @ + 1 ELSE @]
    /\ UNCHANGED <<w_buffer, rx_total, tx_total, wire, engine_in, last, session,
                   phase, splitted, peer, halves, once>>

\* io.read completes: do_io returns, `?` propagates its error, else continue
ReadIo_await(t) ==
    /\ task[t].pc = "rio_await" /\ CanRun(t)
    /\ \E res \in PeerReadOutcomes(r_buffer.b, rx_total, peer) :
          LET c == SafeRead_do_io_done(r_buffer, res,
                                       Range(rx_total + 1, rx_total + res.n))
          IN /\ r_buffer' = c.s
             /\ rx_total' = rx_total + res.n
             /\ task' = [task EXCEPT ![t] =
                            IF IsErr(c.ret)
                            THEN Run(Return(task[t], c.ret), session, tx_total)
                            ELSE [task[t] EXCEPT !.pc = "rio_read_tls",
                                                 !.z = @ \/ res.n = 0]]
    /\ pend' = [pend EXCEPT !.r = FALSE]
    /\ UNCHANGED <<w_buffer, tx_total, wire, engine_in, last, session, phase,
                   splitted, peer, halves, once>>

\* self.session.process_new_packets() and the rest of read_io
ReadIo_process(t) ==
    /\ task[t].pc = "rio_process" /\ CanRun(t)
    /\ \E o \in PnpOutcomes(session, peer) :
          /\ session' = o.s
          /\ task' = [task EXCEPT ![t] =
                         Run(ReadIo_after_process(task[t], o), o.s, tx_total)]
    /\ UNCHANGED <<bufvars, last, phase, splitted, peer, halves, once>>

\* -------------------------------------------- the steps of write_io
\* session.write_tls(&mut self.w_buffer): nothing pending is Ok(0) without a
\* call of the sink; else one synchronous write of the next chunk
WriteIo_write_tls(t) ==
    /\ task[t].pc = "wio_write_tls" /\ CanRun(t)
    /\ IF Sendable(session, tx_total) = 0
       THEN /\ task' = [task EXCEPT ![t].n = 0, ![t].pc = "wio_do_io_ok"]
            /\ UNCHANGED <<w_buffer, tx_total>>
       ELSE \E k \in 1..Min(Sendable(session, tx_total), MaxSlice) :
               LET c == SafeWrite_write(w_buffer, Range(tx_total + 1, tx_total + k))
               IN /\ w_buffer' = c.s
                  /\ tx_total' = tx_total + c.ret.n
                  /\ task' = [task EXCEPT ![t] =
                                 CASE IsOk(c.ret) ->
                                        [task[t] EXCEPT !.n = c.ret.n, !.pc = "wio_do_io_ok"]
                                   [] IsWouldBlock(c.ret) ->
                                        [task[t] EXCEPT !.pc = "wio_do_io_wb"]
                                   [] OTHER ->
                                        Run(Return(task[t], c.ret), session, tx_total)]
    /\ UNCHANGED <<r_buffer, rx_total, wire, engine_in, pend, last, session, phase,
                   splitted, peer, halves, once>>

\* self.w_buffer.do_io(&mut self.io) up to its await, after Ok(n) ("wio_do_io_ok":
\* then break n) or after WouldBlock ("wio_do_io_wb": then continue)
WriteIo_do_io(t) ==
    /\ task[t].pc \in {"wio_do_io_ok", "wio_do_io_wb"} /\ CanRun(t)
    /\ IF SafeWrite_do_io_empty(w_buffer)
       THEN /\ task' = [task EXCEPT ![t] =
                           IF task[t].pc = "wio_do_io_ok"
                           THEN Run(Return(task[t], Ok(task[t].n)), session, tx_total)
                           ELSE [task[t] EXCEPT !.pc = "wio_write_tls"]]
            /\ UNCHANGED <<w_buffer, pend>>
       ELSE /\ w_buffer' = SafeWrite_do_io_take(w_buffer)
            /\ pend' = [pend EXCEPT !.w = TRUE]
            /\ task' = [task EXCEPT ![t].pc =
                           IF task[t].pc = "wio_do_io_ok"
                           THEN "wio_await_ok" ELSE "wio_await_wb"]
    /\ UNCHANGED <<r_buffer, rx_total, tx_total, wire, engine_in, last, session,
                   phase, splitted, peer, halves, once>>

\* io.write_all completes: do_io returns, `?` propagates its error
WriteIo_await(t) ==
    /\ task[t].pc \in {"wio_await_ok", "wio_await_wb"} /\ CanRun(t)
    /\ \E out \in PeerWriteAllOutcomes(w_buffer.b, peer) :
          /\ Len(wire) + out.sent <= MaxWire
          /\ LET c == SafeWrite_do_io_done(w_buffer, out.res)
             IN /\ w_buffer' = c.s
                /\ wire' = wire \o SubSeq(Buffer_bytes(w_buffer.b), 1, out.sent)
                /\ task' = [task EXCEPT ![t] =
                               CASE IsErr(c.ret) ->
                                        Run(Return(task[t], c.ret), session, tx_total)
                                 [] task[t].pc = "wio_await_ok" ->
                                        Run(Return(task[t], Ok(task[t].n)), session, tx_total)
                                 [] OTHER -> [task[t] EXCEPT !.pc = "wio_write_tls"]]
    /\ pend' = [pend EXCEPT !.w = FALSE]
    /\ UNCHANGED <<r_buffer, rx_total, tx_total, engine_in, last, session, phase,
                   splitted, peer, halves, once>>

\* ------------------------------------------------------------- TlsError
\* enum TlsError { Io(io::Error), Rustls(rustls::Error) }; From<io::Error> and
\* From<rustls::Error> build the two variants
TlsError_Io(e) == [tag |-> "TlsError", variant |-> "Io", e |-> e]

TlsError_Rustls(diag) == [tag |-> "TlsError", variant |-> "Rustls", e |-> Err("", diag)]

\* impl From<TlsError> for io::Error
TlsError_into_io(te) ==
    IF te.variant = "Io" THEN te.e ELSE Err("Other", te.e.msg)

\* ------------------------------------------------------ connect / accept
\* TlsConnector::connect / TlsAcceptor::accept: Stream::new, then handshake
Connect_start ==
    /\ phase = "new"
    /\ phase' = "handshaking"
    /\ task' = [task EXCEPT !["W"] =
                   Run([IdleTask EXCEPT !.op = "handshake", !.pc = "hs_write_loop"],
                       session, tx_total)]
    /\ UNCHANGED <<bufvars, last, session, splitted, peer, halves, once>>

\* ClientConnection::new(..)? / ServerConnection::new(..)? fails: connect returns
\* the engine's error through From<rustls::Error>
Connect_new_fails ==
    /\ phase = "new"
    /\ phase' = "dead"
    /\ last' = [op |-> "connect", ret |-> TlsError_Rustls("config")]
    /\ UNCHANGED <<bufvars, session, task, splitted, peer, halves, once>>

\* what connect returns once handshake has returned `rv`: `?` converts the
\* io::Error through From<io::Error>
Connect_result(rv) == IF IsOk(rv) THEN Ok(0) ELSE TlsError_Io(rv)

\* stream.handshake().await?; Ok(TlsStream(stream))
Connect_return ==
    /\ phase = "handshaking"
    /\ task["W"].pc = "ret"
    /\ phase' = IF IsOk(task["W"].rv) THEN "ready" ELSE "dead"
    /\ last' = [op |-> "connect", ret |-> Connect_result(task["W"].rv)]
    /\ task' = [task EXCEPT !["W"] = IdleTask]
    /\ UNCHANGED <<bufvars, session, splitted, peer, halves, once>>

\* the caller converts the TlsError connect returned: io::Error::from(e)
Connect_error_into_io ==
    /\ phase = "dead"
    /\ last.op = "connect"
    /\ last' = [op |-> "into_io", ret |-> TlsError_into_io(last.ret), from |-> last.ret]
    /\ UNCHANGED <<bufvars, session, task, phase, splitted, peer, halves, once>>

\* ------------------------------------------------------ public operations
\* A new operation may start on side t: the stream is ready, the side has no
\* operation in flight, and unless the stream is split neither has the other.
MayStart(t) ==
    /\ phase = "ready"
    /\ Finished(t)
    /\ CanRun(t)
    /\ (splitted \/ Finished(Other(t)))

\* ReadHalf::read that calls read_inner(buf, false)
Read_start_not_splitted(len) ==
    /\ MayStart("R")
    /\ task' = [task EXCEPT !["R"] =
                   [IdleTask EXCEPT !.op = "read", !.pc = "ri_loop", !.len = len,
                                    !.sp = FALSE]]
    /\ UNCHANGED <<bufvars, last, session, phase, splitted, peer, halves, once>>

\* Stream::read / ReadHalf::read: read_inner(buf, splitted)
Read_start(len) ==
    /\ MayStart("R")
    /\ task' = [task EXCEPT !["R"] =
                   [IdleTask EXCEPT !.op = "read", !.pc = "ri_loop", !.len = len,
                                    !.sp = splitted]]
    /\ UNCHANGED <<bufvars, last, session, phase, splitted, peer, halves, once>>

\* match self.session.reader().read(slice)
ReadInner_loop(t) ==
    /\ task[t].pc = "ri_loop" /\ CanRun(t)
    /\ LET r == Reader_read(session, task[t].len)
       IN /\ session' = IF IsOk(r) THEN [session EXCEPT !.plaintext = @ - r.n]
                        ELSE session
          /\ task' = [task EXCEPT ![t] =
                         IF IsWouldBlock(r)
                         THEN CallReadIo(task[t], "ri_ret", task[t].sp)
                         ELSE Return([task[t] EXCEPT !.via = "reader"], r)]
    /\ UNCHANGED <<bufvars, last, phase, splitted, peer, halves, once>>

\* Stream::write / WriteHalf::write
Write_start(len) ==
    /\ MayStart("W")
    /\ task' = [task EXCEPT !["W"] =
                   Run([IdleTask EXCEPT !.op = "write", !.pc = "w_pre", !.len = len,
                                        !.mark = session.emitted, !.tx0 = tx_total],
                       session, tx_total)]
    /\ UNCHANGED <<bufvars, last, session, phase, splitted, peer, halves, once>>

\* let n = self.session.writer().write(slice): the engine accepts n bytes of
\* the slice and queues their records
Write_feed(t) ==
    /\ task[t].pc = "w_feed" /\ CanRun(t)
    /\ \E n \in 0..Min(task[t].len, MaxTx - session.emitted) :
          /\ session' = [session EXCEPT !.emitted = @ + n]
          /\ task' = [task EXCEPT ![t] =
                         Run([task[t] EXCEPT !.acc = n, !.pc = "w_drain"],
                             session', tx_total)]
    /\ UNCHANGED <<bufvars, last, phase, splitted, peer, halves, once>>

\* Stream::flush / WriteHalf::flush: self.session.writer().flush()? is Ok
Flush_start ==
    /\ MayStart("W")
    /\ task' = [task EXCEPT !["W"] =
                   Run([IdleTask EXCEPT !.op = "flush", !.pc = "f_drain",
                                        !.prev_err = ReturnedErr("W")],
                       session, tx_total)]
    /\ UNCHANGED <<bufvars, last, session, phase, splitted, peer, halves, once>>

\* self.io.flush().await completes
Flush_await(t) ==
    /\ task[t].pc = "f_await" /\ CanRun(t)
    /\ \E res \in PeerUnitOutcomes(peer) :
          task' = [task EXCEPT ![t] = Return(task[t], res)]
    /\ UNCHANGED <<bufvars, last, session, phase, splitted, peer, halves, once>>

\* Stream::shutdown / WriteHalf::shutdown: send_close_notify() runs in the call
\* itself, before the future is first polled
Shutdown_start ==
    /\ MayStart("W")
    /\ session.emitted < MaxTx
    /\ session' = send_close_notify(session)
    /\ task' = [task EXCEPT !["W"] =
                   Run([IdleTask EXCEPT !.op = "shutdown", !.pc = "s_drain",
                                        !.again = /\ task["W"].op = "shutdown"
                                                  /\ task["W"].pc = "ret"
                                                  /\ IsOk(task["W"].rv)],
                       session', tx_total)]
    /\ UNCHANGED <<bufvars, last, phase, splitted, peer, halves, once>>

\* self.io.shutdown().await completes
Shutdown_await(t) ==
    /\ task[t].pc = "s_await" /\ CanRun(t)
    /\ \E res \in PeerUnitOutcomes(peer) :
          task' = [task EXCEPT ![t] = Return(task[t], res)]
    /\ UNCHANGED <<bufvars, last, session, phase, splitted, peer, halves, once>>

\* split(): the stream moves into an Rc shared by a ReadHalf and a WriteHalf
Split ==
    /\ phase = "ready" /\ ~splitted
    /\ Finished("R") /\ Finished("W")
    /\ splitted' = TRUE
    /\ UNCHANGED <<bufvars, last, session, task, phase, peer, halves, once>>

\* ------------------------------------------------------- specifications
\* a step of read_io, of write_io or of an operation's own code
StepOf(t) ==
    \/ ReadIo_read_tls(t)
    \/ ReadIo_do_io(t)
    \/ ReadIo_await(t)
    \/ ReadIo_process(t)
    \/ WriteIo_write_tls(t)
    \/ WriteIo_do_io(t)
    \/ WriteIo_await(t)

AppStepOf(t) ==
    \/ ReadInner_loop(t)
    \/ Write_feed(t)
    \/ Flush_await(t)
    \/ Shutdown_await(t)

\* Stream::new gives both staging buffers the default size
Init ==
    /\ \E c \in 1..MaxCap : BufInit(c, c)
    /\ last = NoCall
    /\ StreamInit
    /\ peer = "any"
    /\ halves = NoHalves
    /\ once = NoOnce

Next ==
    \/ Connect_start
    \/ Connect_new_fails
    \/ Connect_return
    \/ Connect_error_into_io
    \/ \E t \in Tasks : StepOf(t)
    \/ \E t \in Tasks : AppStepOf(t)
    \/ \E len \in 0..MaxSlice : Read_start(len)
    \/ \E len \in 0..MaxSlice : Write_start(len)
    \/ Flush_start
    \/ Shutdown_start
    \/ Split

\* The rustls-backed stream: connect, then any sequence of operations.
Spec == Init /\ [][Next]_vars

\* ================================================================ claims
\* ------------------------------------------------------------------- C1
IsPrefix(p, q) == Len(p) <= Len(q) /\ p = SubSeq(q, 1, Len(p))

\* C1: the bytes handed to the transport are, in order and once each, the first
\* of the bytes the synchronous write accepted, and all of them once the write
\* staging buffer is empty; and the bytes returned by the synchronous read,
\* followed by the bytes still between the cursors of the read staging buffer,
\* are the bytes the transport produced, in order and once each.
C1_ByteFidelity ==
    /\ IsPrefix(wire, Range(1, tx_total))
    /\ (Buffer_is_empty(w_buffer.b) => wire = Range(1, tx_total))
    /\ engine_in \o Buffer_bytes(r_buffer.b) = Range(1, rx_total)

\* ------------------------------------------------------------------- C2
CursorsOk(b) ==
    /\ 0 <= b.read
    /\ b.read <= b.write
    /\ b.write <= Buffer_cap(b)
    /\ (b.read = b.write => b.read = 0)

\* C2: in every state, that is after every synchronous read, write, flush,
\* pump_read and pump_write, failed or not, both staging buffers have
\* read <= write <= capacity, and read = write only at 0.
C2_CursorInvariant == CursorsOk(r_buffer.b) /\ CursorsOk(w_buffer.b)

\* a pump_write has just emptied the write buffer and reset its cursors, while
\* the read buffer is partly consumed
C2_Witness ==
    /\ last.op = "pump_write" /\ IsOk(last.ret) /\ last.ret.n > 0
    /\ w_buffer.b.read = 0 /\ w_buffer.b.write = 0
    /\ r_buffer.b.read > 0

\* ------------------------------------------------------------------- C3
\* connect with a responsive, correctly configured peer: every transport read
\* returns bytes the engine needs, every transport write completes, and the
\* engine accepts the peer's records
InitLive ==
    /\ \E c \in 1..MaxCap : BufInit(c, c)
    /\ last = NoCall
    /\ StreamInit
    /\ peer = "responsive"
    /\ halves = NoHalves
    /\ once = NoOnce

NextLive ==
    \/ Connect_start
    \/ \E t \in Tasks : StepOf(t)

\* The executor polls a future that can make progress: weak fairness of the
\* steps of connect.
SpecLive == InitLive /\ [][NextLive]_vars /\ WF_vars(NextLive)

HandshakeReturned == task["W"].op = "handshake" /\ task["W"].pc = "ret"

\* C3: with a responsive peer Stream::handshake returns, and whenever it returns
\* Ok the session is neither handshaking nor wanting to write.
C3_HandshakeTerminates ==
    /\ <>HandshakeReturned
    /\ [](HandshakeReturned /\ IsOk(task["W"].rv)
             => ~is_handshaking(session) /\ ~wants_write(session, tx_total))

\* the handshake has returned Ok after more than one transport read and with
\* records sent in more than one write
C3_Witness ==
    /\ HandshakeReturned /\ IsOk(task["W"].rv)
    /\ task["W"].rdlen = 2 /\ task["W"].wrlen = 2
    /\ Len(wire) = 2

\* ------------------------------------------------------------------- C4
\* C4: once the transport has returned 0 bytes to a read of the handshake, the
\* handshake issues no further transport read, and when it returns it returns
\* Err(UnexpectedEof, "tls handshake eof").
C4_HandshakeEof ==
    task["W"].op = "handshake" /\ task["W"].z
        => /\ task["W"].after_z = 0
           /\ (task["W"].pc = "ret"
                  => task["W"].rv = Err("UnexpectedEof", "tls handshake eof"))

\* the handshake has returned after a 0-byte read that followed a read of bytes
C4_Witness ==
    /\ HandshakeReturned /\ task["W"].z
    /\ rx_total > 0
    /\ is_handshaking(session)

\* ------------------------------------------------------------------- C5
ReadReturned == task["R"].op = "read" /\ task["R"].pc = "ret"

\* C5 as stated: a read during which the transport returned 0 bytes returns
\* Err(UnexpectedEof, "tls raw stream eof"), and Ok(0) comes from the engine's
\* reader only.
C5_RawEof ==
    ReadReturned
        => /\ (task["R"].z => task["R"].rv = Err("UnexpectedEof", "tls raw stream eof"))
           /\ (task["R"].rv = Ok(0) => task["R"].via = "reader")

\* C5 amended: a read during which the transport returned 0 bytes returns
\* Err(UnexpectedEof, "tls raw stream eof") unless process_new_packets has failed
\* on this session before, and then it returns Err(InvalidData); Ok(0) comes from
\* the engine's reader only.
C5_RawEofUnlessFailed ==
    ReadReturned
        => /\ (task["R"].z
                  => task["R"].rv = IF session.error
                                    THEN Err("InvalidData", "tls")
                                    ELSE Err("UnexpectedEof", "tls raw stream eof"))
           /\ (task["R"].rv = Ok(0) => task["R"].via = "reader")

\* a read of a healthy session has met the end of the transport's stream
C5_Witness ==
    /\ ReadReturned /\ task["R"].z /\ ~session.error
    /\ task["R"].via = "eof"

\* ------------------------------------------------------------------- C7
\* C7: an operation that returned because process_new_packets failed in a
\* read_io with splitted = false made exactly one write_io call in that read_io
\* and returned Err(InvalidData), whatever the write_io call returned.
C7_AlertWriteOnce ==
    \A t \in Tasks :
        task[t].pc = "ret" /\ task[t].pf /\ ~task[t].sp
            => task[t].tries = 1 /\ task[t].rv = Err("InvalidData", "tls")

\* process_new_packets failed in a read of the unsplit stream and the alert
\* write failed in the transport
C7_Witness ==
    /\ ReadReturned /\ task["R"].pf /\ ~task["R"].sp
    /\ w_buffer.status.tag = "Err"
    /\ ~Buffer_is_empty(w_buffer.b)

\* ------------------------------------------------------------------- C8
WriteState == <<w_buffer, wire, tx_total, pend.w>>

\* C8: on a split stream no step of a ReadHalf operation changes the write
\* staging buffer, what it has accepted, what reached the transport, or whether
\* a transport write is in flight.
C8_ReadHalfNeverWrites ==
    [][splitted /\ task'["R"] # task["R"] => WriteState' = WriteState]_vars

\* process_new_packets has failed in a ReadHalf read while a WriteHalf operation
\* is suspended on its transport write and the session has an alert to send
C8_Witness ==
    /\ splitted /\ ReadReturned /\ task["R"].pf /\ task["R"].sp
    /\ task["W"].pc \in {"wio_await_ok", "wio_await_wb"}
    /\ wants_write(session, tx_total)

\* ------------------------------------------------------------------- C9
WriteReturnsOk ==
    /\ task["W"].op = "write" /\ task["W"].pc # "ret"
    /\ task'["W"].op = "write" /\ task'["W"].pc = "ret"
    /\ IsOk(task'["W"].rv)

AtWriterWrite == task["W"].op = "write" /\ task["W"].pc = "w_feed"

NativeSession_new ==
    [plaintext |-> 0, close_notify |-> FALSE, out |-> 0, accepted |-> 0,
     shut |-> FALSE]

\* TlsStream::new after a handshake: both staging buffers are empty
InitNative ==
    /\ \E rc \in 1..MaxCap, wc \in 1..MaxCap : BufInit(rc, wc)
    /\ last = NoCall
    /\ session = NativeSession_new
    /\ task = [t \in Tasks |-> IdleTask]
    /\ phase = "native"
    /\ splitted = FALSE
    /\ peer = "any"
    /\ halves = NoHalves
    /\ once = NoOnce

\* one operation at a time on the TlsStream
MayStartNative == phase = "native" /\ Finished("R") /\ Finished("W")

\* What the engine makes of n record bytes it has just read: "data" (p bytes of
\* plaintext), "more" (an incomplete record), "close" (close_notify) or "bad".
NativeRecordOutcomes(n) ==
    {[kind |-> "data", p |-> p] : p \in 1..n}
        \cup {[kind |-> k, p |-> 0] : k \in {"more", "close", "bad"}}

\* TlsStream::read
TlsRead_start(len) ==
    /\ MayStartNative
    /\ task' = [task EXCEPT !["R"] =
                   [IdleTask EXCEPT !.op = "nread", !.pc = "n_tls_read", !.len = len]]
    /\ UNCHANGED <<bufvars, last, session, phase, splitted, peer, halves, once>>

\* match self.tls.read(slice): the engine returns what it holds, or reads
\* Buffers once; an incomplete record makes it read again
TlsRead_tls_read ==
    /\ task["R"].pc = "n_tls_read"
    /\ LET tk == task["R"]
       IN CASE tk.len = 0 ->
                 /\ task' = [task EXCEPT !["R"] = Return(tk, Ok(0))]
                 /\ UNCHANGED <<r_buffer, engine_in, session>>
            [] tk.len > 0 /\ session.plaintext > 0 ->
                 /\ session' = [session EXCEPT !.plaintext = @ - Min(@, tk.len)]
                 /\ task' = [task EXCEPT !["R"] =
                                Return(tk, Ok(Min(session.plaintext, tk.len)))]
                 /\ UNCHANGED <<r_buffer, engine_in>>
            [] tk.len > 0 /\ session.plaintext = 0 /\ session.close_notify ->
                 /\ task' = [task EXCEPT !["R"] = Return(tk, Ok(0))]
                 /\ UNCHANGED <<r_buffer, engine_in, session>>
            [] OTHER ->
                 \E dstlen \in 1..MaxSlice :
                    LET c == SafeRead_read(r_buffer, dstlen)
                    IN /\ r_buffer' = c.s
                       /\ engine_in' = engine_in \o c.data
                       /\ CASE IsOk(c.ret) /\ c.ret.n > 0 ->
                                 \E o \in NativeRecordOutcomes(c.ret.n) :
                                    CASE o.kind = "data" ->
                                           /\ session' = [session EXCEPT !.plaintext =
                                                             o.p - Min(o.p, tk.len)]
                                           /\ task' = [task EXCEPT !["R"] =
                                                          Return(tk, Ok(Min(o.p, tk.len)))]
                                      [] o.kind = "more" ->
                                           UNCHANGED <<session, task>>
                                      [] o.kind = "close" ->
                                           /\ session' = [session EXCEPT !.close_notify = TRUE]
                                           /\ task' = [task EXCEPT !["R"] = Return(tk, Ok(0))]
                                      [] OTHER ->
                                           /\ task' = [task EXCEPT !["R"] =
                                                          Return(tk, Err("Other", "tls"))]
                                           /\ UNCHANGED session
                            [] IsOk(c.ret) ->
                                 /\ \E r \in {Ok(0), Err("Other", "unexpected eof")} :
                                       task' = [task EXCEPT !["R"] = Return(tk, r)]
                                 /\ UNCHANGED session
                            [] IsWouldBlock(c.ret) ->
                                 /\ task' = [task EXCEPT !["R"].pc = "n_do_read_io"]
                                 /\ UNCHANGED session
                            [] OTHER ->
                                 /\ task' = [task EXCEPT !["R"] = Return(tk, c.ret)]
                                 /\ UNCHANGED session
    /\ UNCHANGED <<w_buffer, rx_total, tx_total, wire, pend, last, phase, splitted, peer, halves, once>>

\* unsafe { self.io.do_read_io() } up to its await
TlsRead_do_read_io ==
    /\ task["R"].pc = "n_do_read_io"
    /\ IF SafeRead_do_io_buffered(r_buffer)
       THEN /\ task' = [task EXCEPT !["R"].pc = "n_tls_read"]
            /\ UNCHANGED <<r_buffer, pend>>
       ELSE /\ r_buffer' = SafeRead_do_io_take(r_buffer)
            /\ pend' = [pend EXCEPT !.r = TRUE]
            /\ task' = [task EXCEPT !["R"].pc = "n_read_await"]
    /\ UNCHANGED <<w_buffer, rx_total, tx_total, wire, engine_in, last, session,
                   phase, splitted, peer, halves, once>>

\* what read does with the result of do_read_io
TlsRead_after_read_io(tk, ret) ==
    CASE IsErr(ret) -> Return(tk, ret)
      [] ret.n = 0 -> Return([tk EXCEPT !.z = TRUE], Ok(0))
      [] OTHER -> [tk EXCEPT !.pc = "n_tls_read"]

\* io.read completes and do_read_io returns
TlsRead_await ==
    /\ task["R"].pc = "n_read_await"
    /\ \E res \in PeerReadOutcomes(r_buffer.b, rx_total, peer) :
          LET c == SafeRead_do_io_done(r_buffer, res,
                                       Range(rx_total + 1, rx_total + res.n))
          IN /\ r_buffer' = c.s
             /\ rx_total' = rx_total + res.n
             /\ task' = [task EXCEPT !["R"] = TlsRead_after_read_io(task["R"], c.ret)]
    /\ pend' = [pend EXCEPT !.r = FALSE]
    /\ UNCHANGED <<w_buffer, tx_total, wire, engine_in, last, session, phase,
                   splitted, peer, halves, once>>

\* TlsStream::write
TlsWrite_start(len) ==
    /\ MayStartNative
    /\ (len = 0 \/ tx_total < MaxTx \/ session.out > 0)
    /\ task' = [task EXCEPT !["W"] =
                   [IdleTask EXCEPT !.op = "nwrite", !.pc = "n_tls_write", !.len = len]]
    /\ UNCHANGED <<bufvars, last, session, phase, splitted, peer, halves, once>>

\* the engine pushes the `out` bytes of its record into Buffers: one write
TlsWrite_push(tk, out, accepted) ==
    LET c == SafeWrite_write(w_buffer, Range(tx_total + 1, tx_total + out))
    IN /\ w_buffer' = c.s
       /\ tx_total' = tx_total + c.ret.n
       /\ CASE IsOk(c.ret) ->
                 /\ session' = [session EXCEPT !.out = out - c.ret.n,
                                               !.accepted = accepted]
                 /\ task' = [task EXCEPT !["W"] =
                                IF out = c.ret.n
                                THEN [tk EXCEPT !.acc = accepted,
                                                !.pc = "n_do_write_io_some"]
                                ELSE tk]
            [] IsWouldBlock(c.ret) ->
                 /\ session' = [session EXCEPT !.out = out, !.accepted = accepted]
                 /\ task' = [task EXCEPT !["W"].pc = "n_do_write_io_none"]
            [] OTHER ->
                 /\ session' = [session EXCEPT !.out = out, !.accepted = accepted]
                 /\ task' = [task EXCEPT !["W"] = Return(tk, c.ret)]

\* let maybe_n = match self.tls.write(slice): the engine makes a record of the
\* plaintext it accepts, or goes on with the record it has still to push
TlsWrite_tls_write ==
    /\ task["W"].pc = "n_tls_write"
    /\ LET tk == task["W"]
       IN CASE session.out > 0 -> TlsWrite_push(tk, session.out, session.accepted)
            [] session.out = 0 /\ tk.len = 0 ->
                 /\ task' = [task EXCEPT !["W"].acc = 0, !["W"].pc = "n_do_write_io_some"]
                 /\ UNCHANGED <<w_buffer, tx_total, session>>
            [] OTHER ->
                 \E n \in 1..Min(tk.len, MaxTx - tx_total) : TlsWrite_push(tk, n, n)
    /\ UNCHANGED <<r_buffer, rx_total, wire, engine_in, pend, last, phase, splitted, peer, halves, once>>

\* TlsStream::flush: self.tls.flush() ends in Buffers::flush, which is Ok(())
TlsFlush_start ==
    /\ MayStartNative
    /\ task' = [task EXCEPT !["W"] =
                   [IdleTask EXCEPT !.op = "nflush", !.pc = "n_do_write_io_flush"]]
    /\ UNCHANGED <<bufvars, last, session, phase, splitted, peer, halves, once>>

\* TlsStream::shutdown
TlsShutdown_start ==
    /\ MayStartNative
    /\ (session.shut \/ tx_total < MaxTx)
    /\ task' = [task EXCEPT !["W"] =
                   [IdleTask EXCEPT !.op = "nshutdown", !.pc = "n_tls_shutdown"]]
    /\ UNCHANGED <<bufvars, last, session, phase, splitted, peer, halves, once>>

\* self.tls.shutdown()?: the first call pushes close_notify into Buffers; a later
\* call waits for the peer's close_notify, or is Ok, as the backend has it
TlsShutdown_tls_shutdown ==
    /\ task["W"].pc = "n_tls_shutdown"
    /\ LET tk == task["W"]
       IN IF session.shut
          THEN /\ \E r \in (IF session.close_notify THEN {Ok(0)} ELSE {Ok(0), WouldBlock}) :
                     task' = [task EXCEPT !["W"] =
                                 IF IsOk(r)
                                 THEN [tk EXCEPT !.pc = "n_do_write_io_shutdown"]
                                 ELSE Return(tk, r)]
               /\ UNCHANGED <<w_buffer, tx_total, session>>
          ELSE LET c == SafeWrite_write(w_buffer, Range(tx_total + 1, tx_total + 1))
               IN /\ w_buffer' = c.s
                  /\ tx_total' = tx_total + c.ret.n
                  /\ session' = IF IsOk(c.ret) THEN [session EXCEPT !.shut = TRUE]
                                ELSE session
                  /\ task' = [task EXCEPT !["W"] =
                                 IF IsOk(c.ret)
                                 THEN [tk EXCEPT !.pc = "n_do_write_io_shutdown"]
                                 ELSE Return(tk, c.ret)]
    /\ UNCHANGED <<r_buffer, rx_total, wire, engine_in, pend, last, phase, splitted, peer, halves, once>>

\* the positions of the native-tls adapter at a pump of the write staging
\* buffer: TlsStream's do_write_io calls, and the write_io calls of handshake
\* ("nh_write_io": in its loop; "nh_final_write": once the engine is done)
NativeWriteIoPcs ==
    {"n_do_write_io_some", "n_do_write_io_none", "n_do_write_io_flush",
     "n_do_write_io_shutdown", "nh_write_io", "nh_final_write"}

\* what write, flush, shutdown and handshake do with the result of the pump;
\* handshake: `if io.write_io().await? == 0 { io.read_io().await?; }`
Native_after_write_io(tk, ret) ==
    CASE IsErr(ret) -> Return(tk, ret)
      [] tk.pc = "n_do_write_io_some" -> Return(tk, Ok(tk.acc))
      [] tk.pc = "n_do_write_io_none" -> [tk EXCEPT !.pc = "n_tls_write"]
      [] tk.pc = "nh_write_io" ->
            [tk EXCEPT !.rv = ret,
                       !.pc = IF ret.n = 0 THEN "nh_read_io" ELSE "nh_engine"]
      [] OTHER -> Return(tk, Ok(0))

\* unsafe { self.io.do_write_io() } up to its await
Native_do_write_io ==
    /\ task["W"].pc \in NativeWriteIoPcs
    /\ ~pend.w
    /\ IF SafeWrite_do_io_empty(w_buffer)
       THEN /\ task' = [task EXCEPT !["W"] = Native_after_write_io(task["W"], Ok(0))]
            /\ UNCHANGED <<w_buffer, pend>>
       ELSE /\ w_buffer' = SafeWrite_do_io_take(w_buffer)
            /\ pend' = [pend EXCEPT !.w = TRUE]
            /\ UNCHANGED task
    /\ UNCHANGED <<r_buffer, rx_total, tx_total, wire, engine_in, last, session,
                   phase, splitted, peer, halves, once>>

\* io.write_all completes and do_write_io returns
Native_write_await ==
    /\ task["W"].pc \in NativeWriteIoPcs
    /\ pend.w
    /\ \E out \in PeerWriteAllOutcomes(w_buffer.b, peer) :
          /\ Len(wire) + out.sent <= MaxWire
          /\ LET c == SafeWrite_do_io_done(w_buffer, out.res)
             IN /\ w_buffer' = c.s
                /\ wire' = wire \o SubSeq(Buffer_bytes(w_buffer.b), 1, out.sent)
                /\ task' = [task EXCEPT !["W"] = Native_after_write_io(task["W"], c.ret)]
    /\ pend' = [pend EXCEPT !.w = FALSE]
    /\ UNCHANGED <<r_buffer, rx_total, tx_total, engine_in, last, session, phase,
                   splitted, peer, halves, once>>

NextNative ==
    \/ \E len \in 0..MaxSlice : TlsRead_start(len)
    \/ TlsRead_tls_read
    \/ TlsRead_do_read_io
    \/ TlsRead_await
    \/ \E len \in 0..MaxSlice : TlsWrite_start(len)
    \/ TlsWrite_tls_write
    \/ TlsFlush_start
    \/ TlsShutdown_start
    \/ TlsShutdown_tls_shutdown
    \/ Native_do_write_io
    \/ Native_write_await

\* The native-tls-backed stream after its handshake: any sequence of operations.
SpecNative == InitNative /\ [][NextNative]_vars

\* ------------------------------------------------------------------- C6
NativeReadReturned == task["R"].op = "nread" /\ task["R"].pc = "ret"

\* C6: a read of the native-tls TlsStream during which the transport returned 0
\* bytes returns Err(UnexpectedEof, "tls raw stream eof").
C6_NativeRawEof ==
    NativeReadReturned /\ task["R"].z
        => task["R"].rv = Err("UnexpectedEof", "tls raw stream eof")

\* ------------------------------------------------------------------ C11
\* the byte numbered k has been handed to the transport
OnWire(w, k) == \E i \in 1..Len(w) : w[i] = k

\* the step by which shutdown issues self.io.shutdown()
IssuesTransportShutdown ==
    /\ task["W"].pc # "s_await"
    /\ task'["W"].op = "shutdown" /\ task'["W"].pc = "s_await"

\* C11: when shutdown issues the transport shutdown the engine does not want to
\* write, the write staging buffer is empty and every record byte the engine
\* emitted, the close_notify included, has been handed to the transport; and no
\* step of shutdown reads from the transport or touches the read staging buffer.
C11_ShutdownOrder ==
    [][/\ IssuesTransportShutdown
            => /\ ~wants_write(session', tx_total')
               /\ Buffer_is_empty(w_buffer'.b)
               /\ session'.emitted > 0
               /\ \A k \in 1..session'.emitted : OnWire(wire', k)
       /\ task'["W"].op = "shutdown" /\ task'["W"] # task["W"]
            => /\ r_buffer' = r_buffer
               /\ rx_total' = rx_total
               /\ pend'.r = pend.r]_vars

\* shutdown is suspended on the transport shutdown after two write_io calls sent
\* an earlier record and the close_notify through a staging buffer of capacity 1
C11_Witness ==
    /\ task["W"].op = "shutdown" /\ task["W"].pc = "s_await"
    /\ Buffer_cap(w_buffer.b) = 1
    /\ session.emitted = 2 /\ wire = <<1, 2>>

\* ------------------------------------------------------------------ C12
\* C12: no step of a shutdown called right after a shutdown that returned Ok
\* takes a record byte from the engine or hands a byte to the transport.
C12_ShutdownIdempotent ==
    [][task["W"].op = "shutdown" /\ task["W"].again
          => wire' = wire /\ tx_total' = tx_total]_vars

\* ------------------------------------------------------------------ C13
\* the step by which flush issues self.io.flush()
IssuesTransportFlush ==
    /\ task["W"].pc # "f_await"
    /\ task'["W"].op = "flush" /\ task'["W"].pc = "f_await"

\* the step by which flush returns Ok
FlushReturnsOk ==
    /\ task["W"].op = "flush" /\ task["W"].pc # "ret"
    /\ task'["W"].op = "flush" /\ task'["W"].pc = "ret"
    /\ IsOk(task'["W"].rv)

\* C13: when flush issues the transport flush the engine does not want to write
\* and the write staging buffer is empty; and the step by which flush returns Ok
\* is the completion of the transport flush, with the write staging buffer empty.
C13_FlushOrder ==
    [][/\ IssuesTransportFlush
            => ~wants_write(session', tx_total') /\ Buffer_is_empty(w_buffer'.b)
       /\ FlushReturnsOk
            => task["W"].pc = "f_await" /\ Buffer_is_empty(w_buffer'.b)]_vars

\* ============================================= split halves and reunite
\* Streams an application holds at once.
MaxStreams == 2
\* Operations done through one half of one stream.
MaxHalfOps == 1

StreamIds == 1..MaxStreams

\* One stream of the application. whole: it is held as a Stream; strong: the
\* strong count of the Rc<UnsafeCell<Stream>> the halves point to (0: no Rc);
\* rd, wr: its ReadHalf and its WriteHalf are held; val: the Stream's fields
\* (transport, session, staging buffers), as the number of operations done
\* through either half.
Stream_whole == [whole |-> TRUE, strong |-> 0, rd |-> FALSE, wr |-> FALSE,
                 val |-> [rd |-> 0, wr |-> 0]]

\* split: the Stream moves into an Rc that a ReadHalf and a WriteHalf share
Stream_split(id) ==
    /\ halves.streams[id].whole
    /\ halves' = [halves EXCEPT !.streams[id] =
                     [@ EXCEPT !.whole = FALSE, !.strong = 2, !.rd = TRUE, !.wr = TRUE]]
    /\ UNCHANGED <<bufvars, last, session, task, phase, splitted, peer, once>>

\* ReadHalf::read: inner.read_inner(buf, true) on the shared Stream
ReadHalf_read(id) ==
    /\ halves.streams[id].rd
    /\ halves.streams[id].val.rd < MaxHalfOps
    /\ halves' = [halves EXCEPT !.streams[id].val.rd = @ + 1]
    /\ UNCHANGED <<bufvars, last, session, task, phase, splitted, peer, once>>

\* WriteHalf::write: inner.write(buf) on the shared Stream
WriteHalf_write(id) ==
    /\ halves.streams[id].wr
    /\ halves.streams[id].val.wr < MaxHalfOps
    /\ halves' = [halves EXCEPT !.streams[id].val.wr = @ + 1]
    /\ UNCHANGED <<bufvars, last, session, task, phase, splitted, peer, once>>

\* reunite without drop(write)
reunite_without_drop(s, read, write) ==
    IF read = write
    THEN IF s[read].strong = 1
         THEN [streams |-> [s EXCEPT ![read] =
                               [@ EXCEPT !.whole = TRUE, !.strong = 0, !.rd = FALSE,
                                         !.wr = FALSE]],
               kind |-> "Ok"]
         ELSE [streams |-> [s EXCEPT ![read] =
                               [@ EXCEPT !.strong = @ - 1, !.rd = FALSE]],
               kind |-> "Panic"]
    ELSE [streams |-> s, kind |-> "Err"]

\* reunite that drops the WriteHalf before it compares the pointers
reunite_dropping_first(s, read, write) ==
    LET dropped == [s EXCEPT ![write] = [@ EXCEPT !.strong = @ - 1, !.wr = FALSE]]
    IN IF read = write
       THEN IF dropped[read].strong = 1
            THEN [streams |-> [dropped EXCEPT ![read] =
                                  [@ EXCEPT !.whole = TRUE, !.strong = 0, !.rd = FALSE]],
                  kind |-> "Ok"]
            ELSE [streams |-> [dropped EXCEPT ![read] =
                                  [@ EXCEPT !.strong = @ - 1, !.rd = FALSE]],
                  kind |-> "Panic"]
       ELSE [streams |-> dropped, kind |-> "Err"]

\* reunite(read, write), the halves given by the stream each points to:
\* Rc::ptr_eq, drop(write), Rc::try_unwrap(read.inner).expect(..).into_inner(),
\* else Err(ReuniteError(read, write))
reunite(s, read, write) ==
    IF read = write
    THEN LET dropped == [s EXCEPT ![write] = [@ EXCEPT !.strong = @ - 1, !.wr = FALSE]]
         IN IF dropped[read].strong = 1
            THEN [streams |-> [dropped EXCEPT ![read] =
                                  [@ EXCEPT !.whole = TRUE, !.strong = 0, !.rd = FALSE]],
                  kind |-> "Ok"]
            ELSE [streams |-> [dropped EXCEPT ![read] =
                                  [@ EXCEPT !.strong = @ - 1, !.rd = FALSE]],
                  kind |-> "Panic"]
    ELSE [streams |-> s, kind |-> "Err"]

\* ReadHalf::reunite(self, other) / WriteHalf::reunite(self, other)
Reunite(read, write) ==
    /\ halves.streams[read].rd /\ halves.streams[write].wr
    /\ LET c == reunite(halves.streams, read, write)
       IN halves' = [streams |-> c.streams,
                     res |-> [kind |-> c.kind, read |-> read, write |-> write,
                              after_err |-> halves.res.after_err \/ c.kind = "Err"]]
    /\ UNCHANGED <<bufvars, last, session, task, phase, splitted, peer, once>>

InitSplit ==
    /\ BufInit(MaxCap, MaxCap)
    /\ last = NoCall
    /\ NoStream
    /\ halves = [streams |-> [id \in StreamIds |-> Stream_whole], res |-> NoReunite]
    /\ once = NoOnce

NextSplit ==
    \/ \E id \in StreamIds : Stream_split(id)
    \/ \E id \in StreamIds : ReadHalf_read(id)
    \/ \E id \in StreamIds : WriteHalf_write(id)
    \/ \E read \in StreamIds, write \in StreamIds : Reunite(read, write)

\* Streams that are split, used through their halves and reunited.
SpecSplit == InitSplit /\ [][NextSplit]_vars

\* ------------------------------------------------------------------ C14
\* the step that consumes the two halves of stream id
ReunitesHalvesOf(id) ==
    /\ halves.streams[id].rd /\ halves.streams[id].wr
    /\ ~halves'.streams[id].rd

\* C14: reunite never panics, and a reunite of the two halves of one stream
\* returns Ok with the stream held whole again, no Rc left, and its fields as
\* the operations through the halves left them; no other stream changes.
C14_ReuniteSucceeds ==
    [][/\ halves'.res.kind # "Panic"
       /\ \A id \in StreamIds :
             ReunitesHalvesOf(id)
                => /\ halves.streams[id].strong = 2
                   /\ halves'.res.kind = "Ok"
                   /\ halves'.streams[id] =
                         [Stream_whole EXCEPT !.val = halves.streams[id].val]
                   /\ \A o \in StreamIds \ {id} :
                         halves'.streams[o] = halves.streams[o]]_vars

\* a stream has been split, read and written through its halves, and reunited
C14_Witness ==
    /\ halves.res.kind = "Ok"
    /\ LET st == halves.streams[halves.res.read]
       IN st.whole /\ st.val.rd > 0 /\ st.val.wr > 0

\* ------------------------------------------------------------------ C15
\* C15: a reunite of halves of different streams returns the ReuniteError with
\* the two halves passed in, and changes no stream: both halves are still held.
C15_ReuniteMismatch ==
    [][halves'.res # halves.res /\ halves'.res.read # halves'.res.write
          => /\ halves'.res.kind = "Err"
             /\ halves'.streams = halves.streams
             /\ halves'.streams[halves'.res.read].rd
             /\ halves'.streams[halves'.res.write].wr]_vars

\* after a ReuniteError, a stream whose halves were used has been reunited
C15_Witness ==
    /\ halves.res.kind = "Ok" /\ halves.res.after_err
    /\ halves.streams[halves.res.read].val.rd > 0

\* ------------------------------------------------------------------ C16
\* C16: whenever no do_io future is pending on a staging buffer, also after one
\* was dropped at its await, the buffer slot is present, and no call on a
\* staging buffer panics.
C16_CancelSafe ==
    /\ (~pend.r => r_buffer.some)
    /\ (~pend.w => w_buffer.some)
    /\ last.ret.tag # "Panic"

\* ------------------------------------------------------------------ C17
\* C17: an operation that returned because process_new_packets failed returned
\* Err(InvalidData) with the engine's diagnostic; the io::Error made of a
\* TlsError of the engine's variant has kind InvalidData and the engine's
\* diagnostic; and the io::Error made of the Io variant is the error it held.
C17_EngineErrorsInvalidData ==
    /\ \A t \in Tasks :
          task[t].pc = "ret" /\ task[t].pf => task[t].rv = Err("InvalidData", "tls")
    /\ last.op = "into_io"
          => IF last.from.variant = "Rustls"
             THEN last.ret = Err("InvalidData", last.from.e.msg)
             ELSE last.ret = last.from.e

\* ------------------------------------------------------------------ C18
\* C18: when process_new_packets failed during the handshake, connect returns
\* the TlsError of the engine's variant.
C18_HandshakeTlsVariant ==
    phase = "dead" /\ session.error /\ last.op = "connect"
        => last.ret.variant = "Rustls"

\* ------------------------------------------------------------------ C19
\* the step by which the operation of side t returns
Returns(t) == task[t].pc # "ret" /\ task'[t].pc = "ret"

\* C19: a flush that was called right after an operation of the write side
\* returned an error returns an error.
C19_ErroredAbsorbing ==
    [][task["W"].prev_err /\ Returns("W") => IsErr(task'["W"].rv)]_vars

\* C20: when process_new_packets succeeds with the peer's close_notify
\* received while the session is still handshaking, read_io returns
\* Err(UnexpectedEof, "tls handshake alert") whatever number of bytes
\* read_tls took, and the operation that called it returns that error.
C20_HandshakeAlert ==
    [][\A t \in Tasks :
          /\ task[t].pc = "rio_process" /\ task'[t] # task[t]
          /\ ~session'.error
          /\ session'.close_notify /\ is_handshaking(session')
          => /\ task'[t].pc = "ret"
             /\ task'[t].rv = Err("UnexpectedEof", "tls handshake alert")]_vars

\* a handshake has returned the alert error after read_tls took bytes
C20_Witness ==
    /\ task["W"].pc = "ret" /\ task["W"].op = "handshake"
    /\ task["W"].rv = Err("UnexpectedEof", "tls handshake alert")
    /\ session.close_notify /\ is_handshaking(session)
    /\ Len(engine_in) > 0


\* ============================================ the one-shot engine initializer
\* Threads that call init().
MaxCallers == 3
\* Calls of init() one thread makes.
MaxInitCalls == 2

\* The Once a call of init() uses. monoio-native-tls declares
\* `static INIT_ONCE` inside init(): every call uses the one Once of the
\* process. monoio-nativetls declares `const INIT_ONCE: Once = Once::new()`:
\* a const is instantiated at each use, so every call builds a new Once.
INIT_ONCE(o) == IF o.crate = "monoio-nativetls" THEN "incomplete" ELSE o.state

\* pub fn init(): without the feature "qat" the body is empty; with it,
\* INIT_ONCE.call_once(|| init_openssl_engine(..)) returns at once on a
\* complete Once, waits while another thread runs the closure, and else starts
\* the closure
init(c) ==
    /\ once.caller[c].pc = "idle"
    /\ once.caller[c].calls < MaxInitCalls
    /\ INIT_ONCE(once) # "running"
    /\ IF once.qat /\ INIT_ONCE(once) = "incomplete"
       THEN once' = [once EXCEPT
                        !.state = IF once.crate = "monoio-nativetls" THEN @ ELSE "running",
                        !.runs = @ + 1,
                        !.caller[c] = [pc |-> "closure", calls |-> @.calls + 1]]
       ELSE once' = [once EXCEPT !.caller[c].calls = @ + 1]
    /\ UNCHANGED <<bufvars, last, session, task, phase, splitted, peer, halves>>

\* init_openssl_engine returns: call_once marks the Once it ran on complete
init_openssl_engine_returns(c) ==
    /\ once.caller[c].pc = "closure"
    /\ once' = [once EXCEPT
                   !.state = IF once.crate = "monoio-nativetls" THEN @ ELSE "complete",
                   !.caller[c].pc = "idle"]
    /\ UNCHANGED <<bufvars, last, session, task, phase, splitted, peer, halves>>

\* a process that links one of the two crates, built with or without "qat"
InitOnce ==
    /\ BufInit(MaxCap, MaxCap)
    /\ last = NoCall
    /\ NoStream
    /\ halves = NoHalves
    /\ \E crate \in {"monoio-native-tls", "monoio-nativetls"}, qat \in BOOLEAN :
          once = [crate |-> crate, qat |-> qat, state |-> "incomplete", runs |-> 0,
                  caller |-> [c \in 1..MaxCallers |-> [pc |-> "idle", calls |-> 0]]]

NextOnce ==
    \/ \E c \in 1..MaxCallers : init(c)
    \/ \E c \in 1..MaxCallers : init_openssl_engine_returns(c)

\* Threads of one process calling init() in any interleaving.
SpecOnce == InitOnce /\ [][NextOnce]_vars

\* C21: init_openssl_engine runs at most once per process, however many
\* threads call init() and however often.
C21_InitOnce == once.runs <= 1


\* ================================== UnsafeRead / UnsafeWrite (zero-copy mode)
\* Distinct slices the engine passes to read and write.
MaxPtr == 2

\* Status::WaitFill(dst): dst is the captured (pointer, length), or None
WaitFill(dst) == [tag |-> "WaitFill", dst |-> dst, ret |-> NoResult]

\* Status::Filled(ret): the result of the real I/O
Filled(ret) == [tag |-> "Filled", dst |-> [some |-> FALSE, ptr |-> 0, len |-> 0], ret |-> ret]

\* io::Read::read(buf) for UnsafeRead (d = "r") and io::Write::write(buf) for
\* UnsafeWrite (d = "w"), buf = (ptr, len): mem::replace(&mut self.status,
\* WaitFill(None)), then capture on WaitFill(_) or return the result on Filled
Unsafe_read_write(d, ptr, len) ==
    /\ ~pend[d]
    /\ LET u == IF d = "r" THEN r_buffer ELSE w_buffer
           v == IF u.status.tag = "WaitFill"
                THEN [u EXCEPT !.status = WaitFill([some |-> TRUE, ptr |-> ptr, len |-> len]),
                               !.ios = 0]
                ELSE [u EXCEPT !.status = WaitFill([some |-> FALSE, ptr |-> 0, len |-> 0])]
       IN /\ r_buffer' = IF d = "r" THEN v ELSE r_buffer
          /\ w_buffer' = IF d = "w" THEN v ELSE w_buffer
          /\ last' = [op |-> IF d = "r" THEN "read" ELSE "write",
                      ret |-> IF u.status.tag = "WaitFill" THEN WouldBlock
                              ELSE u.status.ret]
    /\ UNCHANGED <<rx_total, tx_total, wire, engine_in, pend, streamvars>>

\* UnsafeRead::do_io / UnsafeWrite::do_io to the await of io.read / io.write,
\* or to the return that needs no I/O
Unsafe_do_io(d) ==
    /\ ~pend[d]
    /\ LET u == IF d = "r" THEN r_buffer ELSE w_buffer
       IN CASE u.status.tag = "WaitFill" /\ u.status.dst.some ->
                 LET v == [u EXCEPT !.ios = Min(@ + 1, 2)]
                 IN /\ r_buffer' = IF d = "r" THEN v ELSE r_buffer
                    /\ w_buffer' = IF d = "w" THEN v ELSE w_buffer
                    /\ pend' = [pend EXCEPT ![d] = TRUE]
                    /\ UNCHANGED last
            [] u.status.tag = "WaitFill" ->
                 /\ last' = [op |-> IF d = "r" THEN "pump_read" ELSE "pump_write",
                             ret |-> WouldBlock]
                 /\ UNCHANGED <<r_buffer, w_buffer, pend>>
            [] OTHER ->
                 /\ last' = [op |-> IF d = "r" THEN "pump_read" ELSE "pump_write",
                             ret |-> IF IsOk(u.status.ret) THEN u.status.ret
                                     ELSE KindOnly(u.status.ret)]
                 /\ UNCHANGED <<r_buffer, w_buffer, pend>>
    /\ UNCHANGED <<rx_total, tx_total, wire, engine_in, streamvars>>

\* do_io whose error return leaves the status as it was (`io.read(buf).await.0?`)
Unsafe_do_io_await_keeps_capture(d) ==
    /\ pend[d]
    /\ LET u == IF d = "r" THEN r_buffer ELSE w_buffer
           room == IF d = "r" THEN MaxRx - rx_total ELSE MaxTx - tx_total
       IN \E res \in {Ok(n) : n \in 0..Min(u.status.dst.len, room)} \cup {TransportErr} :
             LET v == [u EXCEPT !.status = IF IsOk(res) THEN Filled(res) ELSE @]
             IN /\ r_buffer' = IF d = "r" THEN v ELSE r_buffer
                /\ w_buffer' = IF d = "w" THEN v ELSE w_buffer
                /\ rx_total' = IF d = "r" THEN rx_total + res.n ELSE rx_total
                /\ engine_in' = IF d = "r"
                                THEN engine_in \o Range(rx_total + 1, rx_total + res.n)
                                ELSE engine_in
                /\ tx_total' = IF d = "w" THEN tx_total + res.n ELSE tx_total
                /\ wire' = IF d = "w"
                           THEN wire \o Range(tx_total + 1, tx_total + res.n)
                           ELSE wire
                /\ last' = [op |-> IF d = "r" THEN "pump_read" ELSE "pump_write",
                            ret |-> IF IsOk(res) THEN res ELSE KindOnly(res)]
    /\ pend' = [pend EXCEPT ![d] = FALSE]
    /\ UNCHANGED streamvars

\* io.read(RawBuf) / io.write(RawBuf) completes with Ok(n), n at most the
\* captured length, or with an error; do_io stores the result and returns it,
\* an error as a new error of the same kind
Unsafe_do_io_await(d) ==
    /\ pend[d]
    /\ LET u == IF d = "r" THEN r_buffer ELSE w_buffer
           room == IF d = "r" THEN MaxRx - rx_total ELSE MaxTx - tx_total
       IN \E res \in {Ok(n) : n \in 0..Min(u.status.dst.len, room)} \cup {TransportErr} :
             LET v == [u EXCEPT !.status = Filled(res)]
             IN /\ r_buffer' = IF d = "r" THEN v ELSE r_buffer
                /\ w_buffer' = IF d = "w" THEN v ELSE w_buffer
                /\ rx_total' = IF d = "r" THEN rx_total + res.n ELSE rx_total
                /\ engine_in' = IF d = "r"
                                THEN engine_in \o Range(rx_total + 1, rx_total + res.n)
                                ELSE engine_in
                /\ tx_total' = IF d = "w" THEN tx_total + res.n ELSE tx_total
                /\ wire' = IF d = "w"
                           THEN wire \o Range(tx_total + 1, tx_total + res.n)
                           ELSE wire
                /\ last' = [op |-> IF d = "r" THEN "pump_read" ELSE "pump_write",
                            ret |-> IF IsOk(res) THEN res ELSE KindOnly(res)]
    /\ pend' = [pend EXCEPT ![d] = FALSE]
    /\ UNCHANGED streamvars

\* ReadBuffer::new_unsafe() and WriteBuffer::new_unsafe(): UnsafeRead::new()
\* and UnsafeWrite::new(). `ios` is history: the transport calls issued since
\* the last capture (2: two or more).
InitUnsafe ==
    /\ r_buffer = [status |-> WaitFill([some |-> FALSE, ptr |-> 0, len |-> 0]), ios |-> 0]
    /\ w_buffer = r_buffer
    /\ rx_total = 0 /\ tx_total = 0 /\ wire = <<>> /\ engine_in = <<>>
    /\ pend = [r |-> FALSE, w |-> FALSE]
    /\ last = NoCall
    /\ NoStream
    /\ halves = NoHalves
    /\ once = NoOnce

NextUnsafe ==
    \/ \E d \in {"r", "w"}, ptr \in 1..MaxPtr, len \in 0..MaxSlice :
          Unsafe_read_write(d, ptr, len)
    \/ \E d \in {"r", "w"} : Unsafe_do_io(d)
    \/ \E d \in {"r", "w"} : Unsafe_do_io_await(d)

\* The zero-copy wrappers under any sequence of synchronous calls and pumps
\* that run to completion, the captured slice staying valid until then (the
\* safety contract of new_unsafe and do_io).
SpecUnsafe == InitUnsafe /\ [][NextUnsafe]_vars


\* the step is a synchronous read (d = "r") or write (d = "w") that returned
UnsafeSyncStep(d) ==
    /\ last'.op = (IF d = "r" THEN "read" ELSE "write")
    /\ pend' = pend
    /\ \/ last' # last
       \/ (IF d = "r" THEN r_buffer' # r_buffer ELSE w_buffer' # w_buffer)

\* the step is a do_io that returned without awaiting the transport
UnsafePumpStep(d) ==
    /\ last'.op = (IF d = "r" THEN "pump_read" ELSE "pump_write")
    /\ pend' = pend
    /\ last' # last

\* C22: a synchronous call reports a result (anything but the WouldBlock of a
\* capture) only after exactly one transport I/O was issued since the capture;
\* a transport I/O is issued only for a captured slice; do_io with nothing
\* captured returns WouldBlock, and do_io on a stored result returns it (an
\* error as an error of the same kind), both without transport I/O and
\* without changing the status.
C22_ZeroCopy ==
    [][\A d \in {"r", "w"} :
          LET u == IF d = "r" THEN r_buffer ELSE w_buffer
              v == IF d = "r" THEN r_buffer' ELSE w_buffer'
          IN /\ UnsafeSyncStep(d) /\ ~IsWouldBlock(last'.ret)
                  => u.ios = 1 /\ last'.ret = u.status.ret
             /\ ~pend[d] /\ pend'[d]
                  => u.status.tag = "WaitFill" /\ u.status.dst.some /\ v.ios = 1
             /\ UnsafePumpStep(d)
                  => /\ v = u
                     /\ <<rx_total, tx_total, wire, engine_in>>' =
                            <<rx_total, tx_total, wire, engine_in>>
                     /\ u.status.tag = "WaitFill" => last'.ret = WouldBlock
                     /\ u.status.tag = "Filled" =>
                           /\ last'.ret.tag = u.status.ret.tag
                           /\ last'.ret.n = u.status.ret.n
                           /\ last'.ret.kind = u.status.ret.kind]_vars

\* a read reported the bytes of its one transport read, and a completed write
\* is stored on the other wrapper
C22_Witness ==
    /\ last.op = "read" /\ IsOk(last.ret) /\ last.ret.n > 0
    /\ r_buffer.ios = 1 /\ rx_total = last.ret.n
    /\ w_buffer.status.tag = "Filled" /\ w_buffer.ios = 1 /\ Len(wire) > 0


\* C28: a synchronous read on WaitFill records the slice and returns
\* WouldBlock; on a stored length it returns that length, and the status goes
\* back to WaitFill(None) only when the length is not zero: a stored Ok(0)
\* stays, so that later reads return Ok(0) again without a capture.
C28_EofKept ==
    [][UnsafeSyncStep("r") =>
          LET st == r_buffer.status
          IN /\ st.tag = "WaitFill"
                  => last'.ret = WouldBlock /\ r_buffer'.status.dst.some
             /\ st.tag = "Filled" /\ IsOk(st.ret)
                  => /\ last'.ret = st.ret
                     /\ r_buffer'.status = IF st.ret.n = 0 THEN st
                                           ELSE WaitFill([some |-> FALSE, ptr |-> 0, len |-> 0])]_vars


\* the step is a call `op` on a staging buffer that returned without awaiting
\* the transport
BufStep(op) ==
    /\ last'.op = op
    /\ pend' = pend
    /\ last' # last \/ r_buffer' # r_buffer \/ w_buffer' # w_buffer

\* C23: a synchronous write or flush on a write staging buffer that holds the
\* error of a failed pump returns that error and leaves it stored, so that
\* every later write and flush returns it too.
C23_WriteSticky ==
    [][(/\ BufStep("write") \/ BufStep("flush")
        /\ w_buffer.some /\ w_buffer.status.tag = "Err")
          => /\ last'.ret = Err(w_buffer.status.kind, w_buffer.status.msg)
             /\ w_buffer'.status = w_buffer.status]_vars


\* C24: a synchronous read of any length on the read staging buffer, when
\* bytes are buffered, copies the first min(buffered, dst.len) of them,
\* advances the read cursor by that and leaves the status alone; when the
\* buffer is empty it copies nothing and returns Ok(0) on Eof, the stored error
\* on Err and WouldBlock otherwise, and a second read right after it returns
\* WouldBlock.
C24_SyncRead ==
    r_buffer.some /\ ~pend.r =>
        \A dstlen \in 0..MaxSlice :
            LET c == SafeRead_read(r_buffer, dstlen)
                n == Min(Buffer_len(r_buffer.b), dstlen)
            IN IF ~Buffer_is_empty(r_buffer.b)
               THEN /\ c.ret = Ok(n)
                    /\ c.data = SubSeq(Buffer_bytes(r_buffer.b), 1, n)
                    /\ Buffer_bytes(c.s.b) =
                          SubSeq(Buffer_bytes(r_buffer.b), n + 1, Buffer_len(r_buffer.b))
                    /\ Buffer_len(c.s.b) = Buffer_len(r_buffer.b) - n
                    /\ n < Buffer_len(r_buffer.b) => c.s.b.read = r_buffer.b.read + n
                    /\ c.s.status = r_buffer.status
               ELSE /\ c.data = <<>>
                    /\ c.s.b = r_buffer.b
                    /\ r_buffer.status.tag = "Eof" => c.ret = Ok(0)
                    /\ r_buffer.status.tag = "Err" =>
                          c.ret = Err(r_buffer.status.kind, r_buffer.status.msg)
                    /\ r_buffer.status.tag = "Ok" => c.ret = WouldBlock
                    /\ SafeRead_read(c.s, dstlen).ret = WouldBlock

\* a read has reported the end of stream of a pump, after an earlier read copied
\* bytes out, and the Eof is no longer stored
C24_Witness ==
    /\ last.op = "read" /\ last.ret = Ok(0)
    /\ r_buffer.some /\ Buffer_is_empty(r_buffer.b) /\ r_buffer.status = StatusOk
    /\ Len(engine_in) > 0 /\ rx_total = Len(engine_in)


\* C25: do_io on a read staging buffer that holds unread bytes returns their
\* count and changes nothing; on an empty one it awaits one transport read,
\* and when that returns n > 0 it returns Ok(n) with the n bytes appended and
\* the status Ok, when it returns 0 it returns Ok(0) with the status Eof, and
\* when it fails it stores the transport's error and returns an error of the
\* same kind.
C25_PumpRead ==
    [][/\ BufStep("pump_read") /\ r_buffer.some
            => /\ ~Buffer_is_empty(r_buffer.b)
               /\ last'.ret = Ok(Buffer_len(r_buffer.b))
               /\ bufvars' = bufvars
       /\ ~pend.r /\ pend'.r
            => Buffer_is_empty(r_buffer.b) /\ rx_total' = rx_total /\ last' = last
       /\ pend.r /\ ~pend'.r /\ last'.op = "pump_read"
            => LET n == rx_total' - rx_total
               IN /\ r_buffer'.some
                  /\ Buffer_bytes(r_buffer'.b) =
                        Buffer_bytes(r_buffer.b) \o Range(rx_total + 1, rx_total + n)
                  /\ IsOk(last'.ret) /\ last'.ret.n > 0
                        => last'.ret.n = n /\ r_buffer'.status = StatusOk
                  /\ IsOk(last'.ret) /\ last'.ret.n = 0
                        => n = 0 /\ r_buffer'.status = StatusEof
                  /\ IsErr(last'.ret)
                        => /\ n = 0
                           /\ r_buffer'.status = StatusErr(TransportErr)
                           /\ last'.ret = KindOnly(TransportErr)
                           /\ last'.ret # TransportErr]_vars

\* a pump has failed: the transport's error is stored and an error of its kind
\* was returned
C25_Witness ==
    /\ last.op = "pump_read" /\ last.ret = KindOnly(TransportErr)
    /\ r_buffer.some /\ r_buffer.status = StatusErr(TransportErr)
    /\ rx_total > 0


\* C26: do_io on an empty write staging buffer returns Ok(0) and changes
\* nothing; on a non-empty one it awaits one write_all of the whole content.
\* When that succeeds every buffered byte is on the wire, the result is the
\* buffered length and the buffer is empty with both cursors at 0; when it
\* fails the transport's error is stored, an error of its kind is returned and
\* the buffer and its cursors are as before.
C26_PumpWrite ==
    [][/\ BufStep("pump_write") /\ w_buffer.some
            => /\ Buffer_is_empty(w_buffer.b)
               /\ last'.ret = Ok(0)
               /\ bufvars' = bufvars
       /\ ~pend.w /\ pend'.w
            => ~Buffer_is_empty(w_buffer.b) /\ wire' = wire /\ last' = last
       /\ pend.w /\ ~pend'.w /\ last'.op = "pump_write"
            => /\ w_buffer'.some
               /\ IsOk(last'.ret)
                     => /\ last'.ret.n = Buffer_len(w_buffer.b)
                        /\ wire' = wire \o Buffer_bytes(w_buffer.b)
                        /\ w_buffer'.b.read = 0 /\ w_buffer'.b.write = 0
                        /\ Buffer_is_empty(w_buffer'.b)
                        /\ w_buffer'.status = w_buffer.status
               /\ IsErr(last'.ret)
                     => /\ last'.ret = KindOnly(TransportErr)
                        /\ w_buffer'.status = StatusErr(TransportErr)
                        /\ w_buffer'.b = w_buffer.b]_vars

\* a pump has written a full buffer out, after an earlier pump failed
C26_Witness ==
    /\ last.op = "pump_write" /\ IsOk(last.ret) /\ last.ret.n = Buffer_cap(w_buffer.b)
    /\ w_buffer.some /\ w_buffer.b = Buffer_new(Buffer_cap(w_buffer.b))
    /\ w_buffer.status = StatusErr(TransportErr)
    /\ Len(wire) >= last.ret.n


\* ------------------------------------------------------------------- C27
\* the bytes the engine would hand to the next write of srclen bytes
NextSrc(srclen) == Range(tx_total + 1, tx_total + srclen)

\* C27 as stated: on a write staging buffer that is exactly full the next
\* synchronous write of any source returns WouldBlock and copies nothing; right
\* after a pump_write that succeeded the whole capacity is available and the
\* next synchronous write of a non-empty source returns Ok(min(source length,
\* capacity)).
C27_BackPressure ==
    w_buffer.some /\ ~pend.w =>
        /\ Buffer_is_full(w_buffer.b) =>
              \A srclen \in 0..MaxSlice :
                  LET c == SafeWrite_write(w_buffer, NextSrc(srclen))
                  IN c.ret = WouldBlock /\ c.s.b = w_buffer.b
        /\ last.op = "pump_write" /\ IsOk(last.ret) =>
              /\ Buffer_available(w_buffer.b) = Buffer_cap(w_buffer.b)
              /\ \A srclen \in 1..MaxSlice :
                    SafeWrite_write(w_buffer, NextSrc(srclen)).ret
                        = Ok(Min(srclen, Buffer_cap(w_buffer.b)))

\* C27, amended: the same, for a write staging buffer that stores no error of
\* an earlier pump_write; the write that is accepted puts the first
\* min(source length, capacity) bytes of the source at the start of the buffer.
C27_BackPressureNoStoredError ==
    w_buffer.some /\ ~pend.w /\ w_buffer.status.tag # "Err" =>
        /\ Buffer_is_full(w_buffer.b) =>
              \A srclen \in 0..MaxSlice :
                  LET c == SafeWrite_write(w_buffer, NextSrc(srclen))
                  IN c.ret = WouldBlock /\ c.s.b = w_buffer.b
        /\ last.op = "pump_write" /\ IsOk(last.ret) =>
              /\ Buffer_available(w_buffer.b) = Buffer_cap(w_buffer.b)
              /\ \A srclen \in 1..MaxSlice :
                    LET c == SafeWrite_write(w_buffer, NextSrc(srclen))
                        n == Min(srclen, Buffer_cap(w_buffer.b))
                    IN /\ c.ret = Ok(n)
                       /\ Buffer_bytes(c.s.b) = SubSeq(NextSrc(srclen), 1, n)
                       /\ c.s.b.write = n

\* a write has been refused with WouldBlock by a buffer that is full again
\* after a pump_write had written an earlier content out
C27_Witness ==
    /\ last.op = "write" /\ last.ret = WouldBlock
    /\ w_buffer.some /\ Buffer_is_full(w_buffer.b) /\ w_buffer.status = StatusOk
    /\ Len(wire) >= Buffer_cap(w_buffer.b)


\* ------------------------------------------- the native-tls handshake
\* f(io.buffers()) ("nh_first") or mid.handshake() ("nh_engine"): the engine
\* goes on with the handshake, reading and writing Buffers synchronously, until
\* it is done, fails, or one of its calls of Buffers returns WouldBlock
NativeHs_engine ==
    /\ task["W"].pc \in {"nh_first", "nh_engine"}
    /\ LET tk == task["W"]
           goes(r) == CASE IsOk(r) -> [tk EXCEPT !.pc = "nh_engine"]
                        [] IsWouldBlock(r) -> [tk EXCEPT !.pc = "nh_write_io"]
                        [] OTHER -> Return(tk, r)
       IN \/ \E dstlen \in 1..MaxSlice :
                LET c == SafeRead_read(r_buffer, dstlen)
                IN /\ r_buffer' = c.s
                   /\ engine_in' = engine_in \o c.data
                   /\ task' = [task EXCEPT !["W"] =
                                  IF IsOk(c.ret) /\ c.ret.n = 0
                                  THEN Return(tk, Err("Other", "unexpected eof"))
                                  ELSE goes(c.ret)]
                   /\ UNCHANGED <<w_buffer, tx_total>>
          \/ \E k \in 1..Min(MaxSlice, MaxTx - tx_total) :
                LET c == SafeWrite_write(w_buffer, Range(tx_total + 1, tx_total + k))
                IN /\ w_buffer' = c.s
                   /\ tx_total' = tx_total + c.ret.n
                   /\ task' = [task EXCEPT !["W"] = goes(c.ret)]
                   /\ UNCHANGED <<r_buffer, engine_in>>
          \/ /\ \E done \in BOOLEAN :
                   task' = [task EXCEPT !["W"] =
                               IF done THEN [tk EXCEPT !.pc = "nh_final_write"]
                               ELSE Return(tk, Err("Other", "tls"))]
             /\ UNCHANGED <<r_buffer, w_buffer, tx_total, engine_in>>
    /\ UNCHANGED <<rx_total, wire, pend, last, session, phase, splitted, peer, halves, once>>

\* io.read_io() up to its await: SafeRead::do_io; the count is not looked at
NativeHs_read_io ==
    /\ task["W"].pc = "nh_read_io"
    /\ ~pend.r
    /\ IF SafeRead_do_io_buffered(r_buffer)
       THEN /\ task' = [task EXCEPT !["W"].pc = "nh_engine"]
            /\ UNCHANGED <<r_buffer, pend>>
       ELSE /\ r_buffer' = SafeRead_do_io_take(r_buffer)
            /\ pend' = [pend EXCEPT !.r = TRUE]
            /\ UNCHANGED task
    /\ UNCHANGED <<w_buffer, rx_total, tx_total, wire, engine_in, last, session,
                   phase, splitted, peer, halves, once>>

\* io.read completes and read_io returns: `?` propagates its error
NativeHs_read_await ==
    /\ task["W"].pc = "nh_read_io"
    /\ pend.r
    /\ \E res \in PeerReadOutcomes(r_buffer.b, rx_total, peer) :
          LET c == SafeRead_do_io_done(r_buffer, res,
                                       Range(rx_total + 1, rx_total + res.n))
          IN /\ r_buffer' = c.s
             /\ rx_total' = rx_total + res.n
             /\ task' = [task EXCEPT !["W"] =
                            IF IsErr(c.ret) THEN Return(task["W"], c.ret)
                            ELSE [task["W"] EXCEPT !.pc = "nh_engine",
                                                   !.z = @ \/ res.n = 0]]
    /\ pend' = [pend EXCEPT !.r = FALSE]
    /\ UNCHANGED <<w_buffer, tx_total, wire, engine_in, last, session, phase,
                   splitted, peer, halves, once>>

\* A stream about to run its handshake: Stream::new of monoio-rustls before
\* connect, or the IOWrapper of monoio-native-tls at the entry of handshake.
InitHandshake ==
    /\ \E c \in 1..MaxCap : BufInit(c, c)
    /\ last = NoCall
    /\ \/ StreamInit
       \/ /\ session = NativeSession_new
          /\ task = [t \in Tasks |->
                        IF t = "W"
                        THEN [IdleTask EXCEPT !.op = "nhandshake", !.pc = "nh_first"]
                        ELSE IdleTask]
          /\ phase = "native"
          /\ splitted = FALSE
    /\ peer = "any"
    /\ halves = NoHalves
    /\ once = NoOnce

NextHandshake ==
    \/ Connect_start
    \/ ReadIo_read_tls("W")
    \/ ReadIo_do_io("W")
    \/ ReadIo_await("W")
    \/ ReadIo_process("W")
    \/ WriteIo_write_tls("W")
    \/ WriteIo_do_io("W")
    \/ WriteIo_await("W")
    \/ NativeHs_engine
    \/ NativeHs_read_io
    \/ NativeHs_read_await
    \/ Native_do_write_io
    \/ Native_write_await

\* The handshake of either adapter, from the new stream to its result.
SpecHandshake == InitHandshake /\ [][NextHandshake]_vars

\* ------------------------------------------------------------------- C29
\* the handshake in progress is Stream::handshake / the native-tls handshake
InRustlsHandshake == task["W"].op = "handshake"

InNativeHandshake == task["W"].op = "nhandshake"

\* this step issues a transport read
IssuesTransportRead == ~pend.r /\ pend'.r

\* this step enters read_io from the read loop of Stream::handshake
StartsReadIo ==
    /\ task'["W"].pc = "rio_read_tls"
    /\ task["W"].pc \notin {"rio_do_io", "rio_await"}

\* C29: in Stream::handshake every read_io of the read loop starts with
\* wants_write() false, and a transport read is issued only while the engine
\* has nothing to send and the write staging buffer is empty; in the native-tls
\* handshake read_io is entered only from a write pump that returned Ok(0)
\* without awaiting, and a transport read is issued only after the last write
\* pump reported 0 bytes, with the write staging buffer empty.
C29_HandshakeOrder ==
    [][/\ InRustlsHandshake /\ StartsReadIo
            => ~wants_write(session', tx_total')
       /\ InRustlsHandshake /\ IssuesTransportRead
            => /\ ~wants_write(session, tx_total)
               /\ w_buffer.some /\ Buffer_is_empty(w_buffer.b) /\ ~pend.w
       /\ InNativeHandshake /\ task'["W"].pc = "nh_read_io" /\ task["W"].pc # "nh_read_io"
            => /\ task["W"].pc = "nh_write_io" /\ ~pend.w /\ ~pend'.w
               /\ task'["W"].rv = Ok(0)
               /\ Buffer_is_empty(w_buffer.b)
       /\ InNativeHandshake /\ IssuesTransportRead
            => /\ task["W"].pc = "nh_read_io" /\ task["W"].rv = Ok(0)
               /\ w_buffer.some /\ Buffer_is_empty(w_buffer.b) /\ ~pend.w]_vars

\* Stream::handshake awaits a transport read in a later iteration: bytes of the
\* peer have been read and bytes of the engine have been written out before
C29_Witness ==
    /\ InRustlsHandshake /\ pend.r /\ task["W"].pc = "rio_await"
    /\ rx_total > 0 /\ Len(wire) > 0
    /\ ~wants_write(session, tx_total)


\* ------------------------------------------------------------------- C30
ReadState == <<r_buffer, rx_total, engine_in, pend.r>>

\* the positions of read_io and of write_io at which the staging buffer is used
ReadIoPcs == {"rio_read_tls", "rio_do_io", "rio_await", "rio_process"}

WriteIoPcs == {"wio_write_tls", "wio_do_io_ok", "wio_do_io_wb", "wio_await_ok",
               "wio_await_wb"}

\* each staging buffer is lent exactly while its transport call is in flight,
\* the call in flight is awaited by the half of its side, and no task stands
\* before a synchronous use or a pump of a buffer that is lent
LentSafe ==
    /\ pend.r = ~r_buffer.some
    /\ pend.w = ~w_buffer.some
    /\ pend.r = (task["R"].pc = "rio_await")
    /\ pend.w = (task["W"].pc \in {"wio_await_ok", "wio_await_wb"})
    /\ task["R"].pc \notin WriteIoPcs
    /\ task["W"].pc \notin ReadIoPcs

\* C30: on a split stream, in every interleaving of a ReadHalf operation and a
\* WriteHalf operation: a step of one half is taken while the other is parked
\* at an await or between operations and leaves the other half as it is; a step
\* of the ReadHalf leaves the write staging buffer and its transport call alone
\* and a step of the WriteHalf the read staging buffer and its transport call;
\* a transport read (write) is issued only while none is in flight; and each
\* staging buffer is lent exactly while the one transport call of its side is
\* awaited, with no task about to use it.
C30_SplitInterleaving ==
    [][splitted' =>
          /\ LentSafe'
          /\ splitted =>
                /\ \A t \in Tasks :
                      task'[t] # task[t] =>
                          /\ task[Other(t)].pc \in Parked
                          /\ task'[Other(t)] = task[Other(t)]
                /\ task'["R"] # task["R"] => WriteState' = WriteState
                /\ task'["W"] # task["W"] => ReadState' = ReadState
                /\ ReadState' # ReadState => task'["R"] # task["R"]
                /\ WriteState' # WriteState => task'["W"] # task["W"]
                /\ pend'.r /\ task'["R"] # task["R"] => ~pend.r
                /\ pend'.w /\ task'["W"] # task["W"] => ~pend.w]_vars

\* a transport read of a ReadHalf read and a transport write of a WriteHalf
\* operation are in flight at the same time
C30_Witness ==
    /\ splitted /\ pend.r /\ pend.w
    /\ task["R"].pc = "rio_await" /\ task["R"].sp
    /\ task["W"].pc \in {"wio_await_ok", "wio_await_wb"}
    /\ ~r_buffer.some /\ ~w_buffer.some


\* ------------------------------------------------------------------- C31
\* C31: in the native-tls-backed TlsStream the step by which shutdown returns
\* Ok is the completion of the transport's shutdown ("s_await": the await of
\* io.shutdown()), and the step by which flush returns Ok is the completion of
\* the transport's flush ("f_await": the await of io.flush()).
C31_NativeShutdownFlush ==
    [][/\ Returns("W") /\ task'["W"].op = "nshutdown" /\ IsOk(task'["W"].rv)
            => task["W"].pc = "s_await"
       /\ Returns("W") /\ task'["W"].op = "nflush" /\ IsOk(task'["W"].rv)
            => task["W"].pc = "f_await"]_vars


\* ------------------------------------------------- readv and writev
\* A vectored buffer is the sequence of the lengths of its segments (the free
\* length for readv, the initialised length for writev).
VecBufs == {<<>>} \cup {<<a>> : a \in 0..MaxSlice}
               \cup {<<a, b>> : a \in 0..1, b \in 1..MaxSlice}

\* RawBuf::new_from_iovec_mut / new_from_iovec: None when there is no segment,
\* else the first segment, whatever its length
RawBuf_new_from_iovec(segs) ==
    IF Len(segs) = 0 THEN [some |-> FALSE, len |-> 0]
    ELSE [some |-> TRUE, len |-> segs[1]]

\* Stream::readv / ReadHalf::readv up to self.read(raw_buf); None => Ok(0)
Readv_start(segs) ==
    /\ MayStart("R")
    /\ LET raw == RawBuf_new_from_iovec(segs)
       IN IF raw.some
          THEN /\ task' = [task EXCEPT !["R"] =
                              [IdleTask EXCEPT !.op = "readv", !.pc = "ri_loop",
                                               !.len = raw.len, !.sp = splitted]]
               /\ last' = [op |-> "readv_call", ret |-> NoResult, segs |-> segs,
                           len |-> raw.len]
          ELSE /\ task' = [task EXCEPT !["R"] = IdleTask]
               /\ last' = [op |-> "readv", ret |-> Ok(0), segs |-> segs, len |-> 0,
                           via |-> "none", init |-> 0]
    /\ UNCHANGED <<bufvars, session, phase, splitted, peer, halves, once>>

\* Stream::writev / WriteHalf::writev (inner.writev) up to self.write(raw_buf)
Writev_start(segs) ==
    /\ MayStart("W")
    /\ LET raw == RawBuf_new_from_iovec(segs)
       IN IF raw.some
          THEN /\ task' = [task EXCEPT !["W"] =
                              Run([IdleTask EXCEPT !.op = "writev", !.pc = "w_pre",
                                                   !.len = raw.len,
                                                   !.mark = session.emitted,
                                                   !.tx0 = tx_total],
                                  session, tx_total)]
               /\ last' = [op |-> "writev_call", ret |-> NoResult, segs |-> segs,
                           len |-> raw.len]
          ELSE /\ task' = [task EXCEPT !["W"] = IdleTask]
               /\ last' = [op |-> "writev", ret |-> Ok(0), segs |-> segs, len |-> 0,
                           via |-> "none", init |-> 0]
    /\ UNCHANGED <<bufvars, session, phase, splitted, peer, halves, once>>

\* readv after self.read(raw_buf).await.0: Stream::readv marks n bytes of the
\* vectored buffer initialised on Ok(n), ReadHalf::readv returns it as it is;
\* writev returns (n, buf_vec)
Vectored_return(t) ==
    /\ task[t].op \in {"readv", "writev"} /\ task[t].pc = "ret"
    /\ last.op = IF t = "R" THEN "readv_call" ELSE "writev_call"
    /\ last' = [op |-> task[t].op, ret |-> task[t].rv, segs |-> last.segs,
                len |-> last.len, via |-> "inner",
                init |-> IF t = "R" /\ ~task[t].sp /\ IsOk(task[t].rv)
                         THEN task[t].rv.n ELSE 0]
    /\ task' = [task EXCEPT ![t] = IdleTask]
    /\ UNCHANGED <<bufvars, session, phase, splitted, peer, halves, once>>

NextVec ==
    \/ Connect_start
    \/ Connect_return
    \/ Split
    \/ \E t \in Tasks : StepOf(t)
    \/ \E t \in Tasks : ReadInner_loop(t)
    \/ \E t \in Tasks : Write_feed(t)
    \/ \E segs \in VecBufs : Readv_start(segs)
    \/ \E segs \in VecBufs : Writev_start(segs)
    \/ \E t \in Tasks : Vectored_return(t)

\* The rustls-backed stream under vectored reads and writes, whole or split.
SpecVec == Init /\ [][NextVec]_vars

\* ------------------------------------------------------------------- C32
\* the length of the first non-empty segment, 0 when there is none
FirstNonEmpty(segs) ==
    IF \E i \in 1..Len(segs) : segs[i] > 0
    THEN segs[CHOOSE i \in 1..Len(segs) :
                 segs[i] > 0 /\ \A j \in 1..(i - 1) : segs[j] = 0]
    ELSE 0

\* C32: a readv or writev that has returned, on the whole stream or on a half:
\* with no non-empty segment it returned Ok(0) without calling read or write;
\* otherwise it called read or write with the first non-empty segment and
\* returned that call's result; and a readv that returned Ok(n) has marked n
\* bytes of the vectored buffer initialised.
C32_VectoredFallback ==
    last.op \in {"readv", "writev"} =>
        /\ FirstNonEmpty(last.segs) = 0 => last.ret = Ok(0) /\ last.via = "none"
        /\ FirstNonEmpty(last.segs) > 0 =>
              last.via = "inner" /\ last.len = FirstNonEmpty(last.segs)
        /\ last.op = "readv" /\ IsOk(last.ret) => last.init = last.ret.n


\* ------------------------------------------------------------------- C33
\* C33: a native-tls handshake during which the transport returned 0 bytes to
\* a read returns Err(UnexpectedEof) with the message "tls handshake eof" or
\* "tls handshake alert".
C33_NativeHandshakeEof ==
    InNativeHandshake /\ task["W"].pc = "ret" /\ task["W"].z
        => /\ IsErr(task["W"].rv)
           /\ task["W"].rv.kind = "UnexpectedEof"
           /\ task["W"].rv.msg \in {"tls handshake eof", "tls handshake alert"}


\* ------------------------------------------------------------------- C34
\* C34: no operation of the stream returns an error of kind WouldBlock to its
\* caller.
C34_NoWouldBlock ==
    \A t \in Tasks : task[t].pc = "ret" => ~IsWouldBlock(task[t].rv)


\* ------------------------------------------------------------------- C35
\* C35: the step by which a read returns a transport error is the completion
\* of a transport read that this read issued: no read fails from an error an
\* earlier transport read left in the read staging buffer.
C35_OneFailurePerError ==
    [][(/\ Returns("R") /\ task'["R"].op = "read"
        /\ IsErr(task'["R"].rv) /\ task'["R"].rv.kind = TransportErr.kind)
            => task["R"].pc = "rio_await"]_vars


\* ------------------------------------------------------------------- C36
\* C36: no record byte is handed to the transport twice: the bytes on the wire
\* are pairwise different.
C36_NoResend ==
    \A i, j \in 1..Len(wire) : wire[i] = wire[j] => i = j


\* ---------------------------------------------------------------------------
\* C37: in safe mode a write-side operation (handshake, write, flush, shutdown
\* of the rustls adapter; handshake, write, flush of the native-tls adapter)
\* returns Ok only with an empty write staging buffer: every staged record byte
\* has been handed to the transport.
WriteSideOps == {"handshake", "write", "flush", "shutdown",
                 "nhandshake", "nwrite", "nflush"}

C37_WriteBufferDrained ==
    [][\A t \in Tasks :
          (Returns(t) /\ task'[t].op \in WriteSideOps /\ IsOk(task'[t].rv))
              => Buffer_is_empty(w_buffer'.b)]_vars


\* ---------------------------------------------------------------------------
\* C38: when write returns Err the engine has accepted none of the caller's
\* plaintext during that call: the count its write accepted in the call is 0.
C38_ErrAcceptsNothing ==
    [][(/\ Returns("W") /\ task'["W"].op \in {"write", "nwrite"}
        /\ IsErr(task'["W"].rv))
            => task["W"].acc = 0]_vars


\* ---------------------------------------------------------------------------
\* C39: whenever into_parts (rustls adapter) or into_inner (native-tls adapter)
\* can be called, no operation being in flight on the whole stream, the read
\* staging buffer holds no unread transport byte and the write staging buffer
\* no unsent record byte.
CanTakeApart ==
    /\ phase \in {"ready", "native"}
    /\ ~splitted
    /\ Finished("R") /\ Finished("W")

C39_TakeApartLosesNothing ==
    CanTakeApart => Buffer_is_empty(r_buffer.b) /\ Buffer_is_empty(w_buffer.b)


\* ---------------------------------------------------------------------------
\* The legacy monoio-nativetls adapter: native_tls::TlsStream<StdAdapter<IO>>.
\* The engine writes its record bytes to StdAdapter synchronously
\* (io::Write); Stream::write drives StdAdapter's asynchronous write, which
\* flushes the write staging buffer, between two calls of the engine.

\* enum ProcessState { Unknown, Pending(usize, usize), Proceed(usize) }
Unknown == [tag |-> "Unknown", t |-> 0, c |-> 0]

Pending(t, c) == [tag |-> "Pending", t |-> t, c |-> c]

Proceed(n) == [tag |-> "Proceed", t |-> 0, c |-> n]

\* BufferedWriter's synchronous write: the staging buffer's write
BufferedWriter_write(bw, src) == SafeWrite_write(bw, src)

\* BufferedWriter::do_io after the await, `res` being write_all's result
BufferedWriter_do_io_done(bw, res) == SafeWrite_do_io_done(bw, res)

\* AsyncWriteRent::write for StdAdapter up to the await of do_io: the state
\* after it, and whether do_io is called
StdAdapter_write_promote_early(ws) ==
    CASE ws.tag = "Pending" -> [ws |-> Proceed(ws.c), do_io |-> FALSE]
      [] OTHER -> [ws |-> ws, do_io |-> FALSE]

StdAdapter_write(ws) ==
    CASE ws.tag = "Pending" /\ ws.c >= ws.t -> [ws |-> Proceed(ws.c), do_io |-> FALSE]
      [] ws.tag = "Pending" -> [ws |-> ws, do_io |-> TRUE]
      [] OTHER -> [ws |-> ws, do_io |-> FALSE]

\* io::Write::write for StdAdapter: the state, the staging buffer and the
\* result after it
StdAdapter_io_write(ws, bw, src) ==
    CASE ws.tag = "Unknown" ->
            LET c == BufferedWriter_write(bw, src)
            IN IF IsOk(c.ret)
               THEN [ws |-> Pending(c.ret.n, 0), bw |-> c.s, ret |-> WouldBlock,
                     staged |-> c.ret.n]
               ELSE [ws |-> ws, bw |-> c.s, ret |-> c.ret, staged |-> 0]
      [] ws.tag = "Pending" ->
            [ws |-> ws, bw |-> bw, ret |-> WouldBlock, staged |-> 0]
      [] OTHER ->
            [ws |-> Unknown, bw |-> bw, ret |-> Ok(ws.c), staged |-> 0]

\* The TlsStream<StdAdapter<IO>>: w_state of the adapter; out: the bytes of the
\* record the engine has still to write to the adapter; accepted: the plaintext
\* count of that record; acked: the record bytes the adapter has acknowledged.
LegacySession_new == [w_state |-> Unknown, out |-> 0, accepted |-> 0, acked |-> 0]

\* the last synchronous write of the adapter: what it did (op), its result,
\* the chunk it staged last (t), the length of the wire when it was staged
\* and the acknowledgements the chunk has got
NoChunk == [op |-> "none", ret |-> NoResult, t |-> 0, wire0 |-> 0, acks |-> 0]

InitLegacy ==
    /\ \E rc \in 1..MaxCap, wc \in 1..MaxCap : BufInit(rc, wc)
    /\ last = NoChunk
    /\ session = LegacySession_new
    /\ task = [t \in Tasks |-> IdleTask]
    /\ phase = "legacy"
    /\ splitted = FALSE
    /\ peer = "any"
    /\ halves = NoHalves
    /\ once = NoOnce

\* Stream::write of monoio-nativetls
LegacyWrite_start(len) ==
    /\ phase = "legacy" /\ Finished("W")
    /\ (tx_total < MaxTx \/ session.out > 0)
    /\ task' = [task EXCEPT !["W"] =
                   [IdleTask EXCEPT !.op = "lwrite", !.pc = "l_io_write", !.len = len]]
    /\ UNCHANGED <<bufvars, last, session, phase, splitted, peer, halves, once>>

\* self.io.write(slice): the engine makes a record of the plaintext it accepts,
\* or goes on with the record it has still to write, and calls the adapter's
\* synchronous write with the record's remaining bytes
LegacyWrite_io_write ==
    /\ task["W"].pc = "l_io_write"
    /\ \E fresh \in 0..Min(task["W"].len, MaxTx - tx_total) :
          /\ (session.out > 0) = (fresh = 0)
          /\ LET out == IF fresh = 0 THEN session.out ELSE fresh
                 accepted == IF fresh = 0 THEN session.accepted ELSE fresh
                 r == StdAdapter_io_write(session.w_state, w_buffer,
                                          Range(session.acked + 1, session.acked + out))
                 left == IF IsOk(r.ret) THEN out - r.ret.n ELSE out
             IN /\ w_buffer' = r.bw
                /\ tx_total' = tx_total + r.staged
                /\ session' = [session EXCEPT
                                  !.w_state = r.ws, !.out = left, !.accepted = accepted,
                                  !.acked = IF IsOk(r.ret) THEN @ + r.ret.n ELSE @]
                /\ last' = CASE r.staged > 0 \/ (IsWouldBlock(r.ret) /\ r.ws # session.w_state) ->
                                  [op |-> "staged", ret |-> r.ret, t |-> r.ws.t,
                                   wire0 |-> Len(wire), acks |-> 0]
                             [] IsOk(r.ret) ->
                                  [last EXCEPT !.op = "ack", !.ret = r.ret, !.acks = @ + 1]
                             [] session.w_state.tag = "Pending" ->
                                  [last EXCEPT !.op = "pending", !.ret = r.ret]
                             [] OTHER ->
                                  [last EXCEPT !.op = "refused", !.ret = r.ret]
                /\ task' = [task EXCEPT !["W"] =
                               CASE IsOk(r.ret) /\ left <= 0 -> Return(task["W"], Ok(accepted))
                                 [] IsOk(r.ret) -> task["W"]
                                 [] IsWouldBlock(r.ret) ->
                                        [task["W"] EXCEPT !.pc = "l_adapter_write"]
                                 [] OTHER -> Return(task["W"], r.ret)]
    /\ UNCHANGED <<r_buffer, rx_total, wire, engine_in, pend, phase, splitted, peer,
                   halves, once>>

\* AsyncWriteRent::write(self.io.get_mut(), BytesMut::new()) up to the await of
\* w_buffer.do_io(io); Ok(_) continues the loop of Stream::write
LegacyWrite_adapter_write ==
    /\ task["W"].pc = "l_adapter_write"
    /\ ~pend.w
    /\ LET a == StdAdapter_write(session.w_state)
       IN /\ session' = [session EXCEPT !.w_state = a.ws]
          /\ IF a.do_io /\ ~SafeWrite_do_io_empty(w_buffer)
             THEN /\ w_buffer' = SafeWrite_do_io_take(w_buffer)
                  /\ pend' = [pend EXCEPT !.w = TRUE]
                  /\ UNCHANGED task
             ELSE /\ task' = [task EXCEPT !["W"].pc = "l_io_write"]
                  /\ UNCHANGED <<w_buffer, pend>>
    /\ UNCHANGED <<r_buffer, rx_total, tx_total, wire, engine_in, last, phase,
                   splitted, peer, halves, once>>

\* io.write_all completes: Ok(n) => self.w_state = Pending(t, c + n)
LegacyWrite_await ==
    /\ task["W"].pc = "l_adapter_write"
    /\ pend.w
    /\ \E o \in PeerWriteAllOutcomes(w_buffer.b, peer) :
          /\ Len(wire) + o.sent <= MaxWire
          /\ LET c == BufferedWriter_do_io_done(w_buffer, o.res)
             IN /\ w_buffer' = c.s
                /\ wire' = wire \o SubSeq(Buffer_bytes(w_buffer.b), 1, o.sent)
                /\ session' = IF IsOk(c.ret)
                              THEN [session EXCEPT !.w_state =
                                       Pending(session.w_state.t,
                                               session.w_state.c + c.ret.n)]
                              ELSE session
                /\ task' = [task EXCEPT !["W"] =
                               IF IsOk(c.ret)
                               THEN [task["W"] EXCEPT !.pc = "l_io_write"]
                               ELSE Return(task["W"], c.ret)]
    /\ pend' = [pend EXCEPT !.w = FALSE]
    /\ UNCHANGED <<r_buffer, rx_total, tx_total, engine_in, last, phase, splitted,
                   peer, halves, once>>

NextLegacy ==
    \/ \E len \in 1..MaxSlice : LegacyWrite_start(len)
    \/ LegacyWrite_io_write
    \/ LegacyWrite_adapter_write
    \/ LegacyWrite_await

SpecLegacy == InitLegacy /\ [][NextLegacy]_vars


\* C40: a chunk of t bytes staged by a synchronous write of StdAdapter is
\* acknowledged to the engine with Ok(n) once, with n <= t and only after at
\* least t bytes have gone to the transport since it was staged; while the chunk
\* is pending a synchronous write returns WouldBlock and copies nothing; the
\* bytes staged so far are the acknowledged ones and the chunk not yet
\* acknowledged, so no chunk is staged twice.
C40_StdAdapterWrite ==
    [][/\ last'.op = "ack"
            => /\ last'.acks = 1
               /\ last'.ret.n <= last'.t
               /\ Len(wire') - last'.wire0 >= last'.t
       /\ (task["W"].pc = "l_io_write" /\ session.w_state.tag = "Pending")
            => /\ w_buffer' = w_buffer
               /\ tx_total' = tx_total
               /\ IsWouldBlock(last'.ret)
       /\ tx_total' = session'.acked
                        + (IF session'.w_state.tag = "Unknown" THEN 0 ELSE last'.t)]_vars

C40_Witness ==
    /\ last.op = "ack" /\ last.acks = 1
    /\ last.t >= 1 /\ last.ret.n = last.t
    /\ session.w_state = Unknown
    /\ task["W"].pc = "ret" /\ IsOk(task["W"].rv)

====
